---- MODULE Spec2Model ----
(***************************************************************************)
(* Verification model of couchbase/go_eventing: the partition (vbucket)    *)
(* assignment planner of the Producer and the vbucket ownership give-up /  *)
(* takeover protocol of the Consumer.                                      *)
(*                                                                         *)
(* Eventing nodes are identified by one name that stands for both their    *)
(* host:port address and their node UUID.  Worker i of a node is the       *)
(* consumer named worker_<appName>_<i>.                                    *)
(***************************************************************************)
EXTENDS Integers, Sequences, FiniteSets, TLC

VARIABLES
    \* ---- cluster and Producer state (producer/vbucket_node_assignment.go)
    members,                  \* membership oracle: sorted list of eventing nodes
    numVbuckets,              \* NumVbuckets
    workerCount,              \* p.workerCount
    priorAddrs,               \* per node: member list its producer had handled before
    pcP,                      \* per node: position of the producer's planning run
    eventingNodeAddrs,        \* per node: p.getEventingNodeAddrs() as last observed
    vbEventingNodeAssignMap,  \* per node: p.vbEventingNodeAssignMap
    workerVbucketMap,         \* per node: p.workerVbucketMap
    \* ---- metadata store and cluster (consumer/vbucket_takeover.go)
    blob,                     \* per vbucket: the checkpoint blob <app>::vb::<vb>
    rebalances,               \* number of membership changes so far
    alive,                    \* membership oracle: the eventing nodes that are up
    \* ---- Consumer state, per consumer <<node, worker index>>
    vbProcessingStats,        \* c.vbProcessingStats, per vbucket
    vbStreamRequested,        \* c.vbStreamRequested
    vbsStreamClosed,          \* c.vbsStreamClosed
    stream,                   \* per vbucket: state of this consumer's DCP stream
    timerDirCopied,           \* vbuckets whose timer dir was downloaded and copied
    isRebalanceOngoing,       \* c.isRebalanceOngoing
    vbsRemainingToOwn,        \* c.vbsRemainingToOwn
    vbsRemainingToGiveUp,     \* c.vbsRemainingToGiveUp
    vbsts,                    \* vbsStateUpdate's copy of the stats (copyVbStats)
    pcMain,                   \* position of vbsStateUpdate
    giveup,                   \* the give-up routine: position, index, vbBlob
    takeover,                 \* the takeover routine: position, index, vbBlob
    stopVbOwnerTakeoverCh,    \* c.stopVbOwnerTakeoverCh: signals buffered in it
    stopVbOwnerGiveupCh,      \* c.stopVbOwnerGiveupCh: signals buffered in it
    \* ---- calls of the IPC codec and of parseDepcfg
    codec,                    \* a frame, its encoding and what the reader decodes
    depcfg,                   \* a settings document, the Producer fields and the error
    seqReq,                   \* a blob's sequence numbers and the stream request made
    route                     \* routeResponse, the stats cache, its lock and a reader

planVars == <<members, numVbuckets, workerCount, priorAddrs, pcP,
              eventingNodeAddrs, vbEventingNodeAssignMap, workerVbucketMap>>

storeVars == <<blob, rebalances, alive>>

consumerVars == <<vbProcessingStats, vbStreamRequested, vbsStreamClosed, stream,
                  timerDirCopied, isRebalanceOngoing, vbsRemainingToOwn,
                  vbsRemainingToGiveUp, vbsts, pcMain, giveup, takeover,
                  stopVbOwnerTakeoverCh, stopVbOwnerGiveupCh>>

callVars == <<codec, depcfg, seqReq, route>>

vars == <<planVars, storeVars, consumerVars, callVars>>

----------------------------------------------------------------------------
(* Bounds of the planner specification *)

\* largest partition count drawn for the planner
MaxPlanVbs == 4
\* largest worker count drawn for the planner
MaxPlanWorkers == 2

\* Eventing nodes in their sort order
NodeOrder == <<"A", "B", "C">>
Nodes == {NodeOrder[i] : i \in DOMAIN NodeOrder}

Range(s) == {s[i] : i \in DOMAIN s}

Min(S) == CHOOSE x \in S : \A y \in S : x <= y

\* sort.Ints / sort.Sort(util.Uint16Slice(..)): ascending sequence of a set
RECURSIVE SortInts(_)
SortInts(S) ==
    IF S = {} THEN <<>> ELSE <<Min(S)>> \o SortInts(S \ {Min(S)})

\* a set of nodes as the sorted list every node sees
RECURSIVE SortedNodes(_, _)
SortedNodes(S, i) ==
    IF i > Len(NodeOrder) THEN <<>>
    ELSE (IF NodeOrder[i] \in S THEN <<NodeOrder[i]>> ELSE <<>>)
         \o SortedNodes(S, i + 1)

\* every non-empty sorted member list
MemberLists == {SortedNodes(S, 1) : S \in (SUBSET Nodes) \ {{}}}

----------------------------------------------------------------------------
(* vbEventingNodeAssign *)

\* make(map[uint16]string)
EmptyMap == [vb \in {} |-> ""]

\* Mutant: the remaining vbuckets are not handed out
vbCountPerNode_NoRemainder(n, N) ==
    [i \in 1..n |-> N \div n]

\* Mutant: the remaining vbuckets go to the last nodes instead of the first
vbCountPerNode_RemainderLast(n, N) ==
    LET vbucketsPerNode == N \div n
        remainingVbs == N - n * vbucketsPerNode
    IN  [i \in 1..n |-> IF i > n - remainingVbs THEN vbucketsPerNode + 1
                        ELSE vbucketsPerNode]

\* vbCountPerNode: vbucketsPerNode each, one more for the first remainingVbs
\* nodes (index i here is the code's i + 1)
vbCountPerNode(n, N) ==
    LET vbucketsPerNode == N \div n
        vbNo == n * vbucketsPerNode
        remainingVbs == N - vbNo
    IN  [i \in 1..n |-> IF remainingVbs > 0 /\ i - 1 < remainingVbs
                        THEN vbucketsPerNode + 1
                        ELSE vbucketsPerNode]

\* for i, v := range vbCountPerNode { for j < v { map[startVb] = addrs[i]; startVb++ } }
RECURSIVE AssignNodeBlocks(_, _, _, _, _)
AssignNodeBlocks(map, addrs, counts, i, startVb) ==
    IF i > Len(counts) THEN map
    ELSE LET block == startVb .. (startVb + counts[i] - 1)
             next == [vb \in (DOMAIN map) \cup block |->
                         IF vb \in block THEN addrs[i] ELSE map[vb]]
         IN  AssignNodeBlocks(next, addrs, counts, i + 1, startVb + counts[i])

\* Mutant: assignments of the previous map are kept for nodes still present
vbEventingNodeAssign_Sticky(prevMap, addrs, N) ==
    LET fresh == AssignNodeBlocks(EmptyMap, addrs, vbCountPerNode(Len(addrs), N), 1, 0)
    IN  [vb \in DOMAIN fresh |->
            IF vb \in DOMAIN prevMap /\ prevMap[vb] \in Range(addrs)
            THEN prevMap[vb] ELSE fresh[vb]]

\* The map vbEventingNodeAssign leaves in p.vbEventingNodeAssignMap, given the
\* map the producer held before, the member list it read and NumVbuckets
vbEventingNodeAssign(prevMap, addrs, N) ==
    AssignNodeBlocks(EmptyMap, addrs, vbCountPerNode(Len(addrs), N), 1, 0)

----------------------------------------------------------------------------
(* initWorkerVbMap *)

\* Mutant: the node's vbuckets are left in descending order
vbucketsToHandle_Unsorted(map, eventingNodeAddr) ==
    LET s == SortInts({k \in DOMAIN map : map[k] = eventingNodeAddr})
    IN  [i \in 1..Len(s) |-> s[Len(s) + 1 - i]]

\* vbuckets the current eventing node is responsible to handle, sorted
vbucketsToHandle(map, eventingNodeAddr) ==
    SortInts({k \in DOMAIN map : map[k] = eventingNodeAddr})

\* Mutant: the remaining vbuckets are not handed to any worker
vbCountPerWorker_NoRemainder(len, wc) ==
    [i \in 1..wc |-> len \div wc]

\* vbCountPerWorker (index i here is the code's i + 1)
vbCountPerWorker(len, wc) ==
    LET vbucketPerWorker == len \div wc
        startVbIndex == wc * vbucketPerWorker
        remainingVbs == len - startVbIndex
    IN  [i \in 1..wc |-> IF remainingVbs > 0 /\ i - 1 < remainingVbs
                         THEN vbucketPerWorker + 1
                         ELSE vbucketPerWorker]

\* for i < workerCount { for j < vbCountPerWorker[i] { append(map[worker_i], toHandle[startVbIndex]); startVbIndex++ } }
\* The result maps worker index i (worker_<appName>_<i>) to its list; a worker
\* that got nothing has no key in the Go map and reads as the empty list.
RECURSIVE AssignWorkerBlocks(_, _, _, _, _)
AssignWorkerBlocks(wmap, toHandle, counts, i, startVbIndex) ==
    IF i > Len(counts) THEN wmap
    ELSE AssignWorkerBlocks(
            [wmap EXCEPT ![i - 1] =
                [j \in 1..counts[i] |-> toHandle[startVbIndex + j]]],
            toHandle, counts, i + 1, startVbIndex + counts[i])

\* The map initWorkerVbMap leaves in p.workerVbucketMap
initWorkerVbMap(map, eventingNodeAddr, wc) ==
    LET toHandle == vbucketsToHandle(map, eventingNodeAddr)
    IN  AssignWorkerBlocks([w \in 0..(wc - 1) |-> <<>>], toHandle,
                           vbCountPerWorker(Len(toHandle), wc), 1, 0)

\* p.workerVbucketMap before initWorkerVbMap ever ran
NoWorkerMap == <<>>

----------------------------------------------------------------------------
(* Consumers, checkpoint blobs and the metadata store *)

\* largest lastSeqProcessed the checkpoint loop writes
MaxSeq == 1
\* largest number of membership changes
MaxRebalances == 1

\* vbuckets of the bucket and workers per node in the rebalance specification;
\* the worker specification has one more of each
NumVbuckets == 2
WorkerCount == 1

\* Nodes, workers and vbuckets of the rebalance protocol specifications
ProtoNodes == {"A", "B"}
WorkerIds == 0..WorkerCount
ProtoVbs == 0..NumVbuckets
ProtoMemberLists == {<<"A">>, <<"A", "B">>}

\* A consumer is <<node, worker index>>
Consumers == ProtoNodes \X WorkerIds
NodeUUID(c) == c[1]
HostPortAddr(c) == c[1]
ConsumerName(c) == c[2]

\* the empty string in a node field, and in a worker field
NoNode == ""
NoWorker == -1

dcpStreamRunning == "running"
dcpStreamStopped == "stopped"
dcpStreamUninitialised == "uninitialised"

\* the empty string in a directory field, and c.eventingDir: every node has
\* its own directory
NoDir == ""
ConsumerEventingDir(c) == "/" \o c[1] \o "/eventing"

\* vbucketKVBlob (the fields the protocol reads or writes); a node's name is
\* both its UUID and its host address
UninitialisedBlob ==
    [node_uuid |-> NoNode, assigned_worker |-> NoWorker,
     current_vb_owner |-> NoNode,
     dcp_stream_status |-> dcpStreamUninitialised,
     previous_node_uuid |-> NoNode, previous_assigned_worker |-> NoWorker,
     previous_vb_owner |-> NoNode, previous_eventing_dir |-> NoDir,
     last_processed_seq_no |-> 0, last_doc_timer_feedback_seqno |-> 0]

\* a routine's vbBlob variable while it holds nothing the routine will read
NoBlob == UninitialisedBlob

\* one vbucket's entry of vbProcessingStats
NoStats == [node_uuid |-> NoNode, assigned_worker |-> NoWorker,
            current_vb_owner |-> NoNode,
            dcp_stream_status |-> dcpStreamUninitialised]
StoppedStats == [node_uuid |-> NoNode, assigned_worker |-> NoWorker,
                 current_vb_owner |-> NoNode,
                 dcp_stream_status |-> dcpStreamStopped]
RunningStats(c) == [node_uuid |-> NodeUUID(c), assigned_worker |-> ConsumerName(c),
                    current_vb_owner |-> HostPortAddr(c),
                    dcp_stream_status |-> dcpStreamRunning]

\* getOpCallback: point get of the blob
getOpCallback(vb) == blob[vb]

\* Mutant: the store refuses the write when the blob changed since it was read
updateCheckpointCallback_Cas(stored, readBlob, vbBlob) ==
    IF stored = readBlob THEN vbBlob ELSE stored

\* updateCheckpointCallback(c, vbKey, vbBlob): the stored blob after the write.
\* updateCheckpoint hands it the blob only, no version token of the read.
updateCheckpointCallback(stored, readBlob, vbBlob) == vbBlob

\* Mutant: every owner is reported dead
IsEventingNodeAlive_Never(c, owner) == FALSE

\* c.producer.IsEventingNodeAlive(owner, uuid)
IsEventingNodeAlive(c, owner) == owner \in alive

\* c.producer.VbEventingNodeAssignMap() and WorkerVbMap()[workerName]
NodeAssignMap(c) == vbEventingNodeAssignMap[c[1]]
WorkerVbs(c, w) ==
    IF w \in DOMAIN workerVbucketMap[c[1]] THEN workerVbucketMap[c[1]][w] ELSE <<>>

\* Mutant: every vbucket is taken to be planned on this node
checkIfCurrentNodeShouldOwnVb_Always(c, vb) == TRUE

checkIfCurrentNodeShouldOwnVb(c, vb) ==
    vb \in DOMAIN NodeAssignMap(c) /\ NodeAssignMap(c)[vb] = HostPortAddr(c)

\* Mutant: the node's plan is asked instead of the worker map
checkIfCurrentConsumerShouldOwnVb_NodeOnly(c, vb) ==
    checkIfCurrentNodeShouldOwnVb(c, vb)

checkIfCurrentConsumerShouldOwnVb(c, vb) ==
    vb \in Range(WorkerVbs(c, ConsumerName(c)))

getVbRemainingToOwn(c) ==
    SortInts({vb \in DOMAIN NodeAssignMap(c) :
                /\ \/ vbProcessingStats[c][vb].node_uuid # NodeUUID(c)
                   \/ vbProcessingStats[c][vb].assigned_worker # ConsumerName(c)
                /\ checkIfCurrentConsumerShouldOwnVb(c, vb)})

getVbRemainingToGiveUp(c) ==
    SortInts({vb \in DOMAIN vbProcessingStats[c] :
                /\ ConsumerName(c) = vbProcessingStats[c][vb].assigned_worker
                /\ ~checkIfCurrentConsumerShouldOwnVb(c, vb)})

\* copyVbStats, as far as the give-up routine reads the copy: the vbuckets
\* whose node_uuid and assigned_worker are this consumer's
copyVbStats(c) ==
    {vb \in DOMAIN vbProcessingStats[c] :
        /\ vbProcessingStats[c][vb].node_uuid = NodeUUID(c)
        /\ vbProcessingStats[c][vb].assigned_worker = ConsumerName(c)}

\* The routines that call doVbTakeover: the takeover routine of vbsStateUpdate
\* and callers of reclaimVbOwnership
TakeoverShard == "shard"
Reclaimers == {"reclaim1", "reclaim2"}
Routines == {TakeoverShard} \cup Reclaimers

RoutineOff == [pc |-> "off", vbs |-> <<>>, idx |-> 0, vbBlob |-> NoBlob]
RoutineDone == [pc |-> "done", vbs |-> <<>>, idx |-> 0, vbBlob |-> NoBlob]
\* the routine returned on a stop signal (lines 151-154 and 224-227)
RoutineStopped == [pc |-> "stopped", vbs |-> <<>>, idx |-> 0, vbBlob |-> NoBlob]
RoutineStart(list) ==
    IF list = <<>> THEN RoutineDone
    ELSE [pc |-> "read", vbs |-> list, idx |-> 1, vbBlob |-> NoBlob]

\* the routine moves on to its next vbucket, or finishes
RoutineAdvance(r) ==
    IF r.idx < Len(r.vbs)
    THEN [pc |-> "read", vbs |-> r.vbs, idx |-> r.idx + 1, vbBlob |-> NoBlob]
    ELSE RoutineDone

\* util.Retry calls the callback again for the same vbucket, without passing
\* the loop boundary of the routine
RoutineRetry(r) == [r EXCEPT !.pc = "retry", !.vbBlob = NoBlob]

\* the state in which no consumer has done anything
\* no call of the IPC codec or of parseDepcfg is under way
NoCalls ==
    /\ codec = [pc |-> "idle"]
    /\ depcfg = [pc |-> "idle"]
    /\ seqReq = [pc |-> "idle"]
    /\ route = [pc |-> "off"]

QuietConsumers ==
    /\ vbProcessingStats = [c \in Consumers |-> [vb \in ProtoVbs |-> NoStats]]
    /\ vbStreamRequested = [c \in Consumers |-> {}]
    /\ vbsStreamClosed = [c \in Consumers |-> {}]
    /\ stream = [c \in Consumers |-> [vb \in ProtoVbs |-> "none"]]
    /\ timerDirCopied = [c \in Consumers |-> {}]
    /\ isRebalanceOngoing = [c \in Consumers |-> FALSE]
    /\ vbsRemainingToOwn = [c \in Consumers |-> <<>>]
    /\ vbsRemainingToGiveUp = [c \in Consumers |-> <<>>]
    /\ vbsts = [c \in Consumers |-> {}]
    /\ pcMain = [c \in Consumers |-> "idle"]
    /\ giveup = [c \in Consumers |-> RoutineOff]
    /\ takeover = [c \in Consumers |-> [t \in Routines |-> RoutineOff]]
    /\ stopVbOwnerTakeoverCh = [c \in Consumers |-> 0]
    /\ stopVbOwnerGiveupCh = [c \in Consumers |-> 0]

----------------------------------------------------------------------------
(* DCP streams of a consumer *)

\* a stream that was requested or is open and has not ended
Streaming(c, vb) == stream[c][vb] \in {"requested", "open", "closing"}

\* c.vbDcpFeedMap[vb].DcpCloseStream(vb, vb): with ok the producer starts
\* closing the stream, otherwise the call returned an error
DcpCloseStream(c, vb, ok) ==
    IF ok /\ stream[c][vb] \in {"requested", "open"}
    THEN [stream EXCEPT ![c][vb] = "closing"]
    ELSE stream

\* DCP_STREAMREQ succeeded: the stream is open, and the blob and the stats get
\* the new owner
StreamOpened(c, vb) ==
    /\ c[1] \in alive
    /\ stream[c][vb] = "requested"
    /\ stream' = [stream EXCEPT ![c][vb] = "open"]
    /\ blob' = [blob EXCEPT ![vb] =
                  [@ EXCEPT !.node_uuid = NodeUUID(c),
                            !.assigned_worker = ConsumerName(c),
                            !.current_vb_owner = HostPortAddr(c),
                            !.dcp_stream_status = dcpStreamRunning]]
    /\ vbProcessingStats' = [vbProcessingStats EXCEPT ![c][vb] = RunningStats(c)]
    /\ UNCHANGED <<callVars, planVars, stopVbOwnerTakeoverCh, stopVbOwnerGiveupCh, rebalances, alive, vbStreamRequested, vbsStreamClosed,
                   timerDirCopied, isRebalanceOngoing, vbsRemainingToOwn,
                   vbsRemainingToGiveUp, vbsts, pcMain, giveup, takeover>>

\* DCP_STREAMEND received: the stream is gone and may be requested again
StreamEnd(c, vb) ==
    /\ c[1] \in alive
    /\ stream[c][vb] = "closing"
    /\ stream' = [stream EXCEPT ![c][vb] = "none"]
    /\ vbStreamRequested' = [vbStreamRequested EXCEPT ![c] = @ \ {vb}]
    /\ UNCHANGED <<callVars, planVars, stopVbOwnerTakeoverCh, stopVbOwnerGiveupCh, storeVars, vbProcessingStats, vbsStreamClosed,
                   timerDirCopied, isRebalanceOngoing, vbsRemainingToOwn,
                   vbsRemainingToGiveUp, vbsts, pcMain, giveup, takeover>>

\* checkpointLoop: the consumer processed another mutation of a vbucket it owns
\* and wrote the new lastSeqProcessed to the blob
CheckpointLoop(c, vb) ==
    /\ c[1] \in alive
    /\ stream[c][vb] \in {"open", "closing"}
    /\ vbProcessingStats[c][vb].node_uuid = NodeUUID(c)
    /\ vbProcessingStats[c][vb].assigned_worker = ConsumerName(c)
    /\ blob[vb].last_processed_seq_no < MaxSeq
    /\ blob' = [blob EXCEPT ![vb].last_processed_seq_no = @ + 1]
    /\ UNCHANGED <<callVars, planVars, rebalances, alive, consumerVars>>

----------------------------------------------------------------------------
(* vbsStateUpdate *)

\* c.isRebalanceOngoing while vbsStateUpdate runs: vbsStateUpdate only resets
\* the flag (lines 186 and 263); its caller sets it before the call
isRebalanceOngoingOnCall == TRUE

\* lines 181-197 and the first launch of the takeover routine
VbsStateUpdate(c) ==
    /\ c[1] \in alive
    /\ pcMain[c] = "idle"
    /\ LET toGiveUp == getVbRemainingToGiveUp(c)
           toOwn == getVbRemainingToOwn(c)
       IN  /\ vbsRemainingToGiveUp' = [vbsRemainingToGiveUp EXCEPT ![c] = toGiveUp]
           /\ vbsRemainingToOwn' = [vbsRemainingToOwn EXCEPT ![c] = toOwn]
           /\ IF toGiveUp = <<>> /\ toOwn = <<>>
              THEN /\ isRebalanceOngoing' = [isRebalanceOngoing EXCEPT ![c] = FALSE]
                   /\ UNCHANGED <<vbsts, pcMain, giveup, takeover>>
              ELSE /\ isRebalanceOngoing' = [isRebalanceOngoing EXCEPT ![c] = isRebalanceOngoingOnCall]
                   /\ vbsts' = [vbsts EXCEPT ![c] = copyVbStats(c)]
                   /\ giveup' = [giveup EXCEPT ![c] = RoutineStart(toGiveUp)]
                   /\ takeover' = [takeover EXCEPT ![c][TakeoverShard] = RoutineStart(toOwn)]
                   /\ pcMain' = [pcMain EXCEPT ![c] = "takeover"]
    /\ UNCHANGED <<callVars, planVars, stopVbOwnerTakeoverCh, stopVbOwnerGiveupCh, storeVars, vbProcessingStats, vbStreamRequested,
                   vbsStreamClosed, stream, timerDirCopied>>

\* lines 240-258: the takeover routine finished or returned on a stop signal;
\* install a fresh stopVbOwnerTakeoverCh and, while the rebalance is ongoing
\* and vbuckets remain to be owned, run the routine again
TakeoverRoundDone(c) ==
    /\ c[1] \in alive
    /\ pcMain[c] = "takeover"
    /\ takeover[c][TakeoverShard].pc \in {"done", "stopped"}
    /\ stopVbOwnerTakeoverCh' = [stopVbOwnerTakeoverCh EXCEPT ![c] = 0]
    /\ IF isRebalanceOngoing[c]
       THEN LET toOwn == getVbRemainingToOwn(c)
            IN  /\ vbsRemainingToOwn' = [vbsRemainingToOwn EXCEPT ![c] = toOwn]
                /\ IF Len(toOwn) > 0
                   THEN /\ takeover' = [takeover EXCEPT ![c][TakeoverShard] = RoutineStart(toOwn)]
                        /\ UNCHANGED pcMain
                   ELSE /\ pcMain' = [pcMain EXCEPT ![c] = "giveupWait"]
                        /\ UNCHANGED takeover
       ELSE /\ pcMain' = [pcMain EXCEPT ![c] = "giveupWait"]
            /\ UNCHANGED <<vbsRemainingToOwn, takeover>>
    /\ UNCHANGED <<callVars, planVars, stopVbOwnerGiveupCh, storeVars, vbProcessingStats, vbStreamRequested,
                   vbsStreamClosed, stream, timerDirCopied, isRebalanceOngoing,
                   vbsRemainingToGiveUp, vbsts, giveup>>

\* Mutant: the call does not wait for the give-up routine
giveupWgWait_NoWait(c) == TRUE

\* line 260: giveupWg.Wait() returns once vbGiveUpRoutine has called Done(),
\* which it defers to after its shards' wg.Wait() (lines 44 and 176)
giveupWgWait(c) == giveup[c].pc \in {"done", "stopped"}

\* lines 260-266: giveupWg.Wait() returned
VbsStateUpdateReturn(c) ==
    /\ c[1] \in alive
    /\ pcMain[c] = "giveupWait"
    /\ giveupWgWait(c)
    /\ isRebalanceOngoing' = [isRebalanceOngoing EXCEPT ![c] = FALSE]
    /\ pcMain' = [pcMain EXCEPT ![c] = "idle"]
    /\ giveup' = [giveup EXCEPT ![c] = RoutineOff]
    /\ takeover' = [takeover EXCEPT ![c][TakeoverShard] = RoutineOff]
    /\ UNCHANGED <<callVars, planVars, stopVbOwnerTakeoverCh, stopVbOwnerGiveupCh, storeVars, vbProcessingStats, vbStreamRequested,
                   vbsStreamClosed, stream, timerDirCopied, vbsRemainingToOwn,
                   vbsRemainingToGiveUp, vbsts>>

----------------------------------------------------------------------------
(* vbGiveUpRoutine *)

GiveUpVb(c) == giveup[c].vbs[giveup[c].idx]

\* line 82: read the blob of the next vbucket to give up
GiveUpRead(c) ==
    /\ c[1] \in alive
    /\ giveup[c].pc = "read"
    /\ giveup' = [giveup EXCEPT ![c].pc = "check",
                                ![c].vbBlob = getOpCallback(GiveUpVb(c))]
    /\ UNCHANGED <<callVars, planVars, stopVbOwnerTakeoverCh, stopVbOwnerGiveupCh, storeVars, vbProcessingStats, vbStreamRequested,
                   vbsStreamClosed, stream, timerDirCopied, isRebalanceOngoing,
                   vbsRemainingToOwn, vbsRemainingToGiveUp, vbsts, pcMain, takeover>>

\* Mutant: the give-up never finds the vbucket recorded
cUpdated_Never(closed, vb) == FALSE

\* line 119: the vbucket is in vbsStreamClosed already
cUpdated(closed, vb) == vb \in closed

\* Mutant: the migrated branch marks the stats stopped, still naming the owner
MigratedStats_StatusOnly(st) == [st EXCEPT !.dcp_stream_status = dcpStreamStopped]

\* lines 97-101: the updateVbStat calls of the migrated branch
MigratedStats(st) ==
    [st EXCEPT !.assigned_worker = NoWorker,
               !.current_vb_owner = NoNode,
               !.dcp_stream_status = dcpStreamStopped,
               !.node_uuid = NoNode]

\* lines 84-131: ownership already migrated (close the stream, clear the
\* stats, next vbucket), or the stats copy still claims the vbucket (record it
\* in vbsStreamClosed, close the stream), or neither (next vbucket)
GiveUpCheck(c) ==
    /\ c[1] \in alive
    /\ giveup[c].pc = "check"
    /\ LET vb == GiveUpVb(c)
           vbBlob == giveup[c].vbBlob
       IN  IF vbBlob.node_uuid # NodeUUID(c) /\ vbBlob.dcp_stream_status = dcpStreamRunning
           THEN /\ \E ok \in BOOLEAN : stream' = DcpCloseStream(c, vb, ok)
                /\ vbProcessingStats' = [vbProcessingStats EXCEPT ![c][vb] = MigratedStats(@)]
                /\ giveup' = [giveup EXCEPT ![c] = RoutineAdvance(@)]
                /\ UNCHANGED vbsStreamClosed
           ELSE IF vb \in vbsts[c]
           THEN /\ vbsStreamClosed' = [vbsStreamClosed EXCEPT ![c] = @ \cup {vb}]
                /\ \E ok \in BOOLEAN : stream' = DcpCloseStream(c, vb, ok)
                /\ giveup' = [giveup EXCEPT
                                ![c].pc = IF cUpdated(vbsStreamClosed[c], vb) THEN "poll" ELSE "reread",
                                ![c].vbBlob = NoBlob]
                /\ UNCHANGED vbProcessingStats
           ELSE /\ giveup' = [giveup EXCEPT ![c] = RoutineAdvance(@)]
                /\ UNCHANGED <<vbProcessingStats, vbsStreamClosed, stream>>
    /\ UNCHANGED <<callVars, planVars, stopVbOwnerTakeoverCh, stopVbOwnerGiveupCh, storeVars, vbStreamRequested, timerDirCopied,
                   isRebalanceOngoing, vbsRemainingToOwn, vbsRemainingToGiveUp,
                   vbsts, pcMain, takeover>>

\* line 137: read the blob again before the give-up checkpoint
GiveUpReread(c) ==
    /\ c[1] \in alive
    /\ giveup[c].pc = "reread"
    /\ giveup' = [giveup EXCEPT ![c].pc = "write",
                                ![c].vbBlob = getOpCallback(GiveUpVb(c))]
    /\ UNCHANGED <<callVars, planVars, stopVbOwnerTakeoverCh, stopVbOwnerGiveupCh, storeVars, vbProcessingStats, vbStreamRequested,
                   vbsStreamClosed, stream, timerDirCopied, isRebalanceOngoing,
                   vbsRemainingToOwn, vbsRemainingToGiveUp, vbsts, pcMain, takeover>>

\* Mutant: the give-up checkpoint records the previous owner but leaves the
\* blob running under the consumer that gives up
GiveUpBlob_StillRunning(c, vbBlob) ==
    [vbBlob EXCEPT !.previous_assigned_worker = ConsumerName(c),
                   !.previous_eventing_dir = ConsumerEventingDir(c),
                   !.previous_node_uuid = NodeUUID(c),
                   !.previous_vb_owner = HostPortAddr(c)]

\* updateCheckpoint, lines 472-481: the blob as the give-up checkpoint writes it
GiveUpBlob(c, vbBlob) ==
    [vbBlob EXCEPT !.assigned_worker = NoWorker,
                   !.current_vb_owner = NoNode,
                   !.dcp_stream_status = dcpStreamStopped,
                   !.node_uuid = NoNode,
                   !.previous_assigned_worker = ConsumerName(c),
                   !.previous_eventing_dir = ConsumerEventingDir(c),
                   !.previous_node_uuid = NodeUUID(c),
                   !.previous_vb_owner = HostPortAddr(c)]

\* Mutant: the stats keep the owner's address
CheckpointStats_OwnerKept(st, vbBlob) ==
    [st EXCEPT !.assigned_worker = vbBlob.assigned_worker,
               !.dcp_stream_status = vbBlob.dcp_stream_status,
               !.node_uuid = vbBlob.node_uuid]

\* updateCheckpoint, lines 485-489: the updateVbStat calls, from the blob written
CheckpointStats(st, vbBlob) ==
    [st EXCEPT !.assigned_worker = vbBlob.assigned_worker,
               !.current_vb_owner = vbBlob.current_vb_owner,
               !.dcp_stream_status = vbBlob.dcp_stream_status,
               !.node_uuid = vbBlob.node_uuid]

\* line 138, updateCheckpoint: write the give-up checkpoint, then the stats
UpdateCheckpoint(c) ==
    /\ c[1] \in alive
    /\ giveup[c].pc = "write"
    /\ LET vb == GiveUpVb(c)
           vbBlob == GiveUpBlob(c, giveup[c].vbBlob)
       IN  /\ blob' = [blob EXCEPT ![vb] =
                         updateCheckpointCallback(blob[vb], giveup[c].vbBlob, vbBlob)]
           /\ vbProcessingStats' = [vbProcessingStats EXCEPT ![c][vb] =
                 CheckpointStats(@, vbBlob)]
    /\ giveup' = [giveup EXCEPT ![c].pc = "poll", ![c].vbBlob = NoBlob]
    /\ UNCHANGED <<callVars, planVars, stopVbOwnerTakeoverCh, stopVbOwnerGiveupCh, rebalances, alive, vbStreamRequested, vbsStreamClosed,
                   stream, timerDirCopied, isRebalanceOngoing, vbsRemainingToOwn,
                   vbsRemainingToGiveUp, vbsts, pcMain, takeover>>

\* Mutant: the poll goes on only while the blob is running under this consumer
KeepPolling_WhileRunningOwned(c, vbBlob) ==
    /\ vbBlob.dcp_stream_status = dcpStreamRunning
    /\ (vbBlob.node_uuid = NodeUUID(c) \/ vbBlob.assigned_worker = ConsumerName(c))

\* the poll at lines 144-169 goes on (sleeps and reads again) in this state
KeepPolling(c, vbBlob) ==
    \/ vbBlob.dcp_stream_status # dcpStreamRunning
    \/ (vbBlob.node_uuid = NodeUUID(c) /\ vbBlob.assigned_worker = ConsumerName(c))

\* lines 144-169: a poll that ends the wait for this vbucket
GiveUpPollExit(c) ==
    /\ c[1] \in alive
    /\ giveup[c].pc = "poll"
    /\ stopVbOwnerGiveupCh[c] = 0
    /\ ~KeepPolling(c, getOpCallback(GiveUpVb(c)))
    /\ giveup' = [giveup EXCEPT ![c] = RoutineAdvance(@)]
    /\ UNCHANGED <<callVars, planVars, stopVbOwnerTakeoverCh, stopVbOwnerGiveupCh, storeVars, vbProcessingStats, vbStreamRequested,
                   vbsStreamClosed, stream, timerDirCopied, isRebalanceOngoing,
                   vbsRemainingToOwn, vbsRemainingToGiveUp, vbsts, pcMain, takeover>>

\* lines 150-154: a poll finds a signal on stopVbOwnerGiveupCh; the routine
\* returns
GiveUpPollStop(c) ==
    /\ c[1] \in alive
    /\ giveup[c].pc = "poll"
    /\ stopVbOwnerGiveupCh[c] > 0
    /\ stopVbOwnerGiveupCh' = [stopVbOwnerGiveupCh EXCEPT ![c] = @ - 1]
    /\ giveup' = [giveup EXCEPT ![c] = RoutineStopped]
    /\ UNCHANGED <<callVars, planVars, stopVbOwnerTakeoverCh, storeVars, vbProcessingStats,
                   vbStreamRequested, vbsStreamClosed, stream, timerDirCopied,
                   isRebalanceOngoing, vbsRemainingToOwn, vbsRemainingToGiveUp,
                   vbsts, pcMain, takeover>>

----------------------------------------------------------------------------
(* doVbTakeover and updateVbOwnerAndStartDCPStream *)

TakeoverVb(c, t) == takeover[c][t].vbs[takeover[c][t].idx]

\* Mutant: without the check of lines 287-291 for a stream this consumer owns
doVbTakeover_NoSelfCheck(c, vb, vbBlob) ==
    IF vbBlob.dcp_stream_status = dcpStreamRunning
    THEN IF /\ NodeUUID(c) # vbBlob.node_uuid
            /\ ~IsEventingNodeAlive(c, vbBlob.node_uuid)
            /\ checkIfCurrentNodeShouldOwnVb(c, vb)
         THEN "update"
         ELSE IF vbBlob.node_uuid = NodeUUID(c) /\ vbBlob.assigned_worker # ConsumerName(c)
         THEN "errVbOwnedByAnotherWorker"
         ELSE "errVbOwnedByAnotherNode"
    ELSE IF vbBlob.dcp_stream_status \in {dcpStreamStopped, dcpStreamUninitialised}
    THEN "update"
    ELSE "errUnexpectedVbStreamStatus"

\* Mutant: a vbucket running under another worker of this node is taken over
doVbTakeover_FromRunningWorker(c, vb, vbBlob) ==
    IF vbBlob.dcp_stream_status = dcpStreamRunning
    THEN IF vbBlob.node_uuid = NodeUUID(c) /\ vbBlob.assigned_worker = ConsumerName(c)
         THEN "nil"
         ELSE IF \/ /\ NodeUUID(c) # vbBlob.node_uuid
                    /\ ~IsEventingNodeAlive(c, vbBlob.node_uuid)
                    /\ checkIfCurrentNodeShouldOwnVb(c, vb)
                 \/ vbBlob.node_uuid = NodeUUID(c)
         THEN "update"
         ELSE "errVbOwnedByAnotherNode"
    ELSE IF vbBlob.dcp_stream_status \in {dcpStreamStopped, dcpStreamUninitialised}
    THEN "update"
    ELSE "errUnexpectedVbStreamStatus"

\* Mutant: a stopped blob is taken over only if it names no owner
doVbTakeover_StoppedUnowned(c, vb, vbBlob) ==
    IF vbBlob.dcp_stream_status = dcpStreamRunning
    THEN IF vbBlob.node_uuid = NodeUUID(c) /\ vbBlob.assigned_worker = ConsumerName(c)
         THEN "nil"
         ELSE IF /\ NodeUUID(c) # vbBlob.node_uuid
                 /\ ~IsEventingNodeAlive(c, vbBlob.node_uuid)
                 /\ checkIfCurrentNodeShouldOwnVb(c, vb)
         THEN "update"
         ELSE IF vbBlob.node_uuid = NodeUUID(c) /\ vbBlob.assigned_worker # ConsumerName(c)
         THEN "errVbOwnedByAnotherWorker"
         ELSE "errVbOwnedByAnotherNode"
    ELSE IF vbBlob.dcp_stream_status \in {dcpStreamStopped, dcpStreamUninitialised}
    THEN IF vbBlob.node_uuid = NoNode THEN "update" ELSE "errVbOwnedByAnotherNode"
    ELSE "errUnexpectedVbStreamStatus"

\* Mutant: a blob of any status but running is taken over
doVbTakeover_AnyStatus(c, vb, vbBlob) ==
    IF vbBlob.dcp_stream_status = dcpStreamRunning
    THEN IF vbBlob.node_uuid = NodeUUID(c) /\ vbBlob.assigned_worker = ConsumerName(c)
         THEN "nil"
         ELSE IF /\ NodeUUID(c) # vbBlob.node_uuid
                 /\ ~IsEventingNodeAlive(c, vbBlob.node_uuid)
                 /\ checkIfCurrentNodeShouldOwnVb(c, vb)
         THEN "update"
         ELSE IF vbBlob.node_uuid = NodeUUID(c) /\ vbBlob.assigned_worker # ConsumerName(c)
         THEN "errVbOwnedByAnotherWorker"
         ELSE "errVbOwnedByAnotherNode"
    ELSE "update"

\* doVbTakeover, lines 279-329, on the blob it read: the error it returns,
\* "nil", or "update" when it calls updateVbOwnerAndStartDCPStream
doVbTakeover(c, vb, vbBlob) ==
    IF vbBlob.dcp_stream_status = dcpStreamRunning
    THEN IF vbBlob.node_uuid = NodeUUID(c) /\ vbBlob.assigned_worker = ConsumerName(c)
         THEN "nil"
         ELSE IF /\ NodeUUID(c) # vbBlob.node_uuid
                 /\ ~IsEventingNodeAlive(c, vbBlob.node_uuid)
                 /\ checkIfCurrentNodeShouldOwnVb(c, vb)
         THEN "update"
         ELSE IF vbBlob.node_uuid = NodeUUID(c) /\ vbBlob.assigned_worker # ConsumerName(c)
         THEN "errVbOwnedByAnotherWorker"
         ELSE "errVbOwnedByAnotherNode"
    ELSE IF vbBlob.dcp_stream_status \in {dcpStreamStopped, dcpStreamUninitialised}
    THEN "update"
    ELSE "errUnexpectedVbStreamStatus"

\* Mutant: the partition is inserted and the request goes ahead although the
\* partition is already in vbStreamRequested
GuardInsert_NoCheck(requested, vb) ==
    [inserted |-> TRUE, requested |-> requested \cup {vb}]

\* updateVbOwnerAndStartDCPStream, lines 350-361: under vbsStreamRRWMutex,
\* insert vb into vbStreamRequested if absent
GuardInsert(requested, vb) ==
    IF vb \notin requested
    THEN [inserted |-> TRUE, requested |-> requested \cup {vb}]
    ELSE [inserted |-> FALSE, requested |-> requested]

\* vbTakeoverCallback under util.Retry: the errors after which doVbTakeover is
\* called again for the same vbucket; after the others the routine moves on
RetriedErrors == {"errDcpRequestStream", "errFailedConnectRemoteRPC", "errCopyPlasmaRecords"}

\* the routine after its doVbTakeover call returned err ("nil": no error).
\* reclaimVbOwnership drops the error and goes on to its own read of the blob.
CallReturns(t, r, err) ==
    IF t = TakeoverShard
    THEN IF err \in RetriedErrors THEN RoutineRetry(r) ELSE RoutineAdvance(r)
    ELSE [r EXCEPT !.pc = "verify", !.vbBlob = NoBlob]

\* lines 222-229 and 277: at the loop boundary of the takeover routine a
\* signal on stopVbOwnerTakeoverCh makes the routine return; otherwise, and
\* in reclaimVbOwnership and on a retry, doVbTakeover reads the vbucket's blob
TakeoverRead(c, t) ==
    /\ c[1] \in alive
    /\ takeover[c][t].pc \in {"read", "retry"}
    /\ IF t = TakeoverShard /\ takeover[c][t].pc = "read" /\ stopVbOwnerTakeoverCh[c] > 0
       THEN /\ stopVbOwnerTakeoverCh' = [stopVbOwnerTakeoverCh EXCEPT ![c] = @ - 1]
            /\ takeover' = [takeover EXCEPT ![c][t] = RoutineStopped]
       ELSE /\ takeover' = [takeover EXCEPT ![c][t].pc = "dispatch",
                                            ![c][t].vbBlob = getOpCallback(TakeoverVb(c, t))]
            /\ UNCHANGED stopVbOwnerTakeoverCh
    /\ UNCHANGED <<callVars, planVars, stopVbOwnerGiveupCh, storeVars, vbProcessingStats,
                   vbStreamRequested, vbsStreamClosed, stream, timerDirCopied,
                   isRebalanceOngoing, vbsRemainingToOwn, vbsRemainingToGiveUp,
                   vbsts, pcMain, giveup>>

\* lines 279-329 and 350-361: dispatch on the stream status; when the stream
\* is to be started, insert the vbucket into vbStreamRequested or, finding it
\* there, take the else branch of line 355
TakeoverDispatch(c, t) ==
    /\ c[1] \in alive
    /\ takeover[c][t].pc = "dispatch"
    /\ LET vb == TakeoverVb(c, t)
           res == doVbTakeover(c, vb, takeover[c][t].vbBlob)
           g == GuardInsert(vbStreamRequested[c], vb)
       IN  IF res = "update"
           THEN /\ vbStreamRequested' = [vbStreamRequested EXCEPT ![c] = g.requested]
                /\ takeover' = [takeover EXCEPT ![c][t] =
                                  [@ EXCEPT !.pc = IF g.inserted THEN "request"
                                                   ELSE "present"]]
           ELSE /\ takeover' = [takeover EXCEPT ![c][t] = CallReturns(t, @, res)]
                /\ UNCHANGED vbStreamRequested
    /\ UNCHANGED <<callVars, planVars, stopVbOwnerTakeoverCh, stopVbOwnerGiveupCh, storeVars, vbProcessingStats, vbsStreamClosed, stream,
                   timerDirCopied, isRebalanceOngoing, vbsRemainingToOwn,
                   vbsRemainingToGiveUp, vbsts, pcMain, giveup>>

\* lines 355-359: the vbucket was in vbStreamRequested, return nil
TakeoverPresent(c, t) ==
    /\ c[1] \in alive
    /\ takeover[c][t].pc = "present"
    /\ takeover' = [takeover EXCEPT ![c][t] = CallReturns(t, @, "nil")]
    /\ UNCHANGED <<callVars, planVars, stopVbOwnerTakeoverCh, stopVbOwnerGiveupCh, storeVars, vbProcessingStats, vbStreamRequested,
                   vbsStreamClosed, stream, timerDirCopied, isRebalanceOngoing,
                   vbsRemainingToOwn, vbsRemainingToGiveUp, vbsts, pcMain, giveup>>

\* Mutant: a failed stream request leaves the vbucket in vbStreamRequested
GuardDelete_Keep(requested, vb) == requested

\* lines 375-377: under vbsStreamRRWMutex, delete vb from vbStreamRequested
GuardDelete(requested, vb) == requested \ {vb}

\* lines 363-382: the stream request; when it fails the partition is removed
\* from vbStreamRequested and the error returned
TakeoverRequest(c, t) ==
    /\ c[1] \in alive
    /\ takeover[c][t].pc = "request"
    /\ LET vb == TakeoverVb(c, t)
       IN  \E ok \in BOOLEAN :
             IF ok
             THEN /\ stream' = [stream EXCEPT ![c][vb] = "requested"]
                  /\ takeover' = [takeover EXCEPT ![c][t].pc = "rpc"]
                  /\ UNCHANGED vbStreamRequested
             ELSE /\ vbStreamRequested' = [vbStreamRequested EXCEPT ![c] = GuardDelete(@, vb)]
                  /\ takeover' = [takeover EXCEPT ![c][t] =
                                    CallReturns(t, @, "errDcpRequestStream")]
                  /\ UNCHANGED stream
    /\ UNCHANGED <<callVars, planVars, stopVbOwnerTakeoverCh, stopVbOwnerGiveupCh, storeVars, vbProcessingStats, vbsStreamClosed,
                   timerDirCopied, isRebalanceOngoing, vbsRemainingToOwn,
                   vbsRemainingToGiveUp, vbsts, pcMain, giveup>>

\* lines 436-466: dial the previous owner's timer-transfer RPC; when the
\* previous owner is another node download and copy the timer directory
TakeoverTimerTransfer(c, t) ==
    /\ c[1] \in alive
    /\ takeover[c][t].pc = "rpc"
    /\ LET vb == TakeoverVb(c, t)
           otherNode == NodeUUID(c) # takeover[c][t].vbBlob.previous_node_uuid
       IN  \E outcome \in {"dialFailed", "copyFailed", "done"} :
             /\ outcome = "copyFailed" => otherNode
             /\ timerDirCopied' =
                   IF outcome = "done" /\ otherNode
                   THEN [timerDirCopied EXCEPT ![c] = @ \cup {vb}]
                   ELSE timerDirCopied
             /\ takeover' = [takeover EXCEPT ![c][t] =
                   CallReturns(t, @,
                       CASE outcome = "dialFailed" -> "errFailedConnectRemoteRPC"
                         [] outcome = "copyFailed" -> "errCopyPlasmaRecords"
                         [] OTHER -> "nil")]
    /\ UNCHANGED <<callVars, planVars, stopVbOwnerTakeoverCh, stopVbOwnerGiveupCh, storeVars, vbProcessingStats, vbStreamRequested,
                   vbsStreamClosed, stream, isRebalanceOngoing, vbsRemainingToOwn,
                   vbsRemainingToGiveUp, vbsts, pcMain, giveup>>

\* reclaimVbOwnership(vb) is called: line 30
ReclaimVbOwnership(c, t, vb) ==
    /\ c[1] \in alive
    /\ takeover[c][t].pc = "off"
    /\ takeover' = [takeover EXCEPT ![c][t] = RoutineStart(<<vb>>)]
    /\ UNCHANGED <<callVars, planVars, stopVbOwnerTakeoverCh, stopVbOwnerGiveupCh, storeVars, vbProcessingStats, vbStreamRequested,
                   vbsStreamClosed, stream, timerDirCopied, isRebalanceOngoing,
                   vbsRemainingToOwn, vbsRemainingToGiveUp, vbsts, pcMain, giveup>>

\* reclaimVbOwnership, lines 32-41: read the blob and return
ReclaimReturn(c, t) ==
    /\ c[1] \in alive
    /\ takeover[c][t].pc = "verify"
    /\ takeover' = [takeover EXCEPT ![c][t] = RoutineOff]
    /\ UNCHANGED <<callVars, planVars, stopVbOwnerTakeoverCh, stopVbOwnerGiveupCh, storeVars, vbProcessingStats, vbStreamRequested,
                   vbsStreamClosed, stream, timerDirCopied, isRebalanceOngoing,
                   vbsRemainingToOwn, vbsRemainingToGiveUp, vbsts, pcMain, giveup>>

----------------------------------------------------------------------------
(* Planner specification: every producer runs vbEventingNodeAssign and then *)
(* initWorkerVbMap on the current membership, from a state in which it is   *)
(* either fresh or has planned for an earlier membership.                   *)

\* The producer state after it planned for member list addrs (<<>>: fresh)
PlannedMap(addrs, N) ==
    IF addrs = <<>> THEN EmptyMap ELSE vbEventingNodeAssign(EmptyMap, addrs, N)

PlannedWorkers(addrs, n, N, wc) ==
    IF addrs = <<>> THEN NoWorkerMap
    ELSE initWorkerVbMap(PlannedMap(addrs, N), n, wc)

InitPlan ==
    /\ members \in MemberLists
    /\ numVbuckets \in 0..MaxPlanVbs
    /\ workerCount \in 1..MaxPlanWorkers
    /\ \E prev \in MemberLists :
          /\ prev # members
          /\ priorAddrs \in [Nodes -> {<<>>, prev}]
    /\ pcP = [n \in Nodes |-> "idle"]
    /\ eventingNodeAddrs = priorAddrs
    /\ vbEventingNodeAssignMap =
          [n \in Nodes |-> PlannedMap(priorAddrs[n], numVbuckets)]
    /\ workerVbucketMap =
          [n \in Nodes |-> PlannedWorkers(priorAddrs[n], n, numVbuckets, workerCount)]
    /\ blob = [vb \in ProtoVbs |-> UninitialisedBlob]
    /\ rebalances = 0
    /\ alive = Nodes
    /\ QuietConsumers
    /\ NoCalls

\* Producer n runs vbEventingNodeAssign
VbEventingNodeAssign(n) ==
    /\ pcP[n] = "idle"
    /\ eventingNodeAddrs' = [eventingNodeAddrs EXCEPT ![n] = members]
    /\ vbEventingNodeAssignMap' =
          [vbEventingNodeAssignMap EXCEPT ![n] =
              vbEventingNodeAssign(vbEventingNodeAssignMap[n], members, numVbuckets)]
    /\ pcP' = [pcP EXCEPT ![n] = "assigned"]
    /\ UNCHANGED <<members, numVbuckets, workerCount, priorAddrs, workerVbucketMap>>
    /\ UNCHANGED <<callVars, storeVars, consumerVars>>

\* Producer n runs initWorkerVbMap
InitWorkerVbMap(n) ==
    /\ pcP[n] = "assigned"
    /\ workerVbucketMap' =
          [workerVbucketMap EXCEPT ![n] =
              initWorkerVbMap(vbEventingNodeAssignMap[n], n, workerCount)]
    /\ pcP' = [pcP EXCEPT ![n] = "idle"]
    /\ UNCHANGED <<members, numVbuckets, workerCount, priorAddrs,
                   eventingNodeAddrs, vbEventingNodeAssignMap>>
    /\ UNCHANGED <<callVars, storeVars, consumerVars>>

NextPlan ==
    \/ \E n \in Nodes : VbEventingNodeAssign(n)
    \/ \E n \in Nodes : InitWorkerVbMap(n)

SpecPlan == InitPlan /\ [][NextPlan]_vars

----------------------------------------------------------------------------
(* Rebalance specification: node B joins or leaves the cluster of node A;    *)
(* the producers plan again and their consumers give up and take over.      *)

Init ==
    /\ members = <<"A">>
    /\ numVbuckets = NumVbuckets
    /\ workerCount = WorkerCount
    /\ priorAddrs = [n \in Nodes |-> <<>>]
    /\ pcP = [n \in Nodes |-> "idle"]
    /\ eventingNodeAddrs = [n \in Nodes |-> <<>>]
    /\ vbEventingNodeAssignMap = [n \in Nodes |-> EmptyMap]
    /\ workerVbucketMap = [n \in Nodes |-> NoWorkerMap]
    /\ blob = [vb \in ProtoVbs |-> UninitialisedBlob]
    /\ rebalances = 0
    /\ alive = ProtoNodes
    /\ QuietConsumers
    /\ NoCalls

\* the membership oracle reports a new member list
MembershipChange ==
    /\ rebalances < MaxRebalances
    /\ rebalances' = rebalances + 1
    /\ \E m \in ProtoMemberLists : m # members /\ members' = m
    /\ UNCHANGED <<numVbuckets, workerCount, priorAddrs, pcP, eventingNodeAddrs,
                   vbEventingNodeAssignMap, workerVbucketMap, blob, alive,
                   consumerVars, callVars>>

\* the producer of node n plans for a member list it has not planned for
Replan(n) ==
    /\ n \in alive
    /\ eventingNodeAddrs[n] # members
    /\ VbEventingNodeAssign(n)

\* the consumers the producers spawned
Spawned == {c \in Consumers : ConsumerName(c) < workerCount}

Next ==
    \/ MembershipChange
    \/ \E n \in ProtoNodes : Replan(n)
    \/ \E n \in ProtoNodes : InitWorkerVbMap(n)
    \/ \E c \in Spawned : VbsStateUpdate(c)
    \/ \E c \in Spawned : TakeoverRoundDone(c)
    \/ \E c \in Spawned : VbsStateUpdateReturn(c)
    \/ \E c \in Spawned : GiveUpRead(c)
    \/ \E c \in Spawned : GiveUpCheck(c)
    \/ \E c \in Spawned : GiveUpReread(c)
    \/ \E c \in Spawned : UpdateCheckpoint(c)
    \/ \E c \in Spawned : GiveUpPollExit(c)
    \/ \E c \in Spawned : TakeoverRead(c, TakeoverShard)
    \/ \E c \in Spawned : TakeoverDispatch(c, TakeoverShard)
    \/ \E c \in Spawned : TakeoverPresent(c, TakeoverShard)
    \/ \E c \in Spawned : TakeoverRequest(c, TakeoverShard)
    \/ \E c \in Spawned : TakeoverTimerTransfer(c, TakeoverShard)
    \/ \E c \in Spawned, vb \in ProtoVbs : StreamOpened(c, vb)
    \/ \E c \in Spawned, vb \in ProtoVbs : StreamEnd(c, vb)
    \/ \E c \in Spawned, vb \in ProtoVbs : CheckpointLoop(c, vb)

Spec == Init /\ [][Next]_vars

----------------------------------------------------------------------------
(* Worker specification: node A runs one worker more, over one vbucket more, *)
(* so that a membership change moves a vbucket between workers of node A.    *)

InitWorkers ==
    /\ members = <<"A">>
    /\ numVbuckets = NumVbuckets + 1
    /\ workerCount = WorkerCount + 1
    /\ priorAddrs = [n \in Nodes |-> <<>>]
    /\ pcP = [n \in Nodes |-> "idle"]
    /\ eventingNodeAddrs = [n \in Nodes |-> <<>>]
    /\ vbEventingNodeAssignMap = [n \in Nodes |-> EmptyMap]
    /\ workerVbucketMap = [n \in Nodes |-> NoWorkerMap]
    /\ blob = [vb \in ProtoVbs |-> UninitialisedBlob]
    /\ rebalances = 0
    /\ alive = {"A"}
    /\ QuietConsumers
    /\ NoCalls

\* the takeover race does not depend on the mutations processed meanwhile
NextWorkers ==
    \/ MembershipChange
    \/ \E n \in ProtoNodes : Replan(n)
    \/ \E n \in ProtoNodes : InitWorkerVbMap(n)
    \/ \E c \in Spawned : VbsStateUpdate(c)
    \/ \E c \in Spawned : TakeoverRoundDone(c)
    \/ \E c \in Spawned : VbsStateUpdateReturn(c)
    \/ \E c \in Spawned : GiveUpRead(c)
    \/ \E c \in Spawned : GiveUpCheck(c)
    \/ \E c \in Spawned : GiveUpReread(c)
    \/ \E c \in Spawned : UpdateCheckpoint(c)
    \/ \E c \in Spawned : GiveUpPollExit(c)
    \/ \E c \in Spawned : TakeoverRead(c, TakeoverShard)
    \/ \E c \in Spawned : TakeoverDispatch(c, TakeoverShard)
    \/ \E c \in Spawned : TakeoverPresent(c, TakeoverShard)
    \/ \E c \in Spawned : TakeoverRequest(c, TakeoverShard)
    \/ \E c \in Spawned : TakeoverTimerTransfer(c, TakeoverShard)
    \/ \E c \in Spawned, vb \in ProtoVbs : StreamOpened(c, vb)
    \/ \E c \in Spawned, vb \in ProtoVbs : StreamEnd(c, vb)

SpecWorkers == InitWorkers /\ [][NextWorkers]_vars

----------------------------------------------------------------------------
(* Stream request specification: the takeover routine of one consumer and   *)
(* two callers of reclaimVbOwnership call doVbTakeover concurrently, on     *)
(* blobs left by earlier rebalances.                                        *)

StreamConsumer == <<"A", 0>>

\* a blob as a consumer left it: given up by prev, or owned by owner
GivenUpBlob(prev) ==
    [UninitialisedBlob EXCEPT !.dcp_stream_status = dcpStreamStopped,
                              !.previous_node_uuid = NodeUUID(prev),
                              !.previous_assigned_worker = ConsumerName(prev),
                              !.previous_vb_owner = HostPortAddr(prev),
                              !.previous_eventing_dir = ConsumerEventingDir(prev)]
OwnedBlob(owner) ==
    [UninitialisedBlob EXCEPT !.dcp_stream_status = dcpStreamRunning,
                              !.node_uuid = NodeUUID(owner),
                              !.assigned_worker = ConsumerName(owner),
                              !.current_vb_owner = HostPortAddr(owner)]
StreamBlobs ==
    {UninitialisedBlob, GivenUpBlob(StreamConsumer), OwnedBlob(<<"B", 0>>)}

InitStream ==
    /\ members = <<"A">>
    /\ numVbuckets = NumVbuckets
    /\ workerCount = WorkerCount
    /\ priorAddrs = [n \in Nodes |-> <<>>]
    /\ pcP = [n \in Nodes |-> "idle"]
    /\ eventingNodeAddrs = [n \in Nodes |-> IF n = "A" THEN members ELSE <<>>]
    /\ vbEventingNodeAssignMap =
          [n \in Nodes |-> PlannedMap(eventingNodeAddrs[n], numVbuckets)]
    /\ workerVbucketMap =
          [n \in Nodes |-> PlannedWorkers(eventingNodeAddrs[n], n, numVbuckets, workerCount)]
    /\ blob \in [ProtoVbs -> StreamBlobs]
    /\ \A vb \in ProtoVbs : vb >= numVbuckets => blob[vb] = UninitialisedBlob
    /\ rebalances = 0
    /\ alive \in {{"A"}, {"A", "B"}}
    /\ QuietConsumers
    /\ NoCalls

NextStream ==
    \/ VbsStateUpdate(StreamConsumer)
    \/ TakeoverRoundDone(StreamConsumer)
    \/ VbsStateUpdateReturn(StreamConsumer)
    \/ \E t \in Reclaimers, vb \in 0..(numVbuckets - 1) :
          ReclaimVbOwnership(StreamConsumer, t, vb)
    \/ \E t \in Reclaimers : ReclaimReturn(StreamConsumer, t)
    \/ \E t \in Routines : TakeoverRead(StreamConsumer, t)
    \/ \E t \in Routines : TakeoverDispatch(StreamConsumer, t)
    \/ \E t \in Routines : TakeoverPresent(StreamConsumer, t)
    \/ \E t \in Routines : TakeoverRequest(StreamConsumer, t)
    \/ \E t \in Routines : TakeoverTimerTransfer(StreamConsumer, t)
    \/ \E vb \in ProtoVbs : StreamOpened(StreamConsumer, vb)

SpecStream == InitStream /\ [][NextStream]_vars

----------------------------------------------------------------------------
(* Convergence specification: node A's workers own every vbucket with their *)
(* streams open, node B has joined and the member list stays <<A, B>>; the  *)
(* producers plan for it and every routine is scheduled fairly.             *)

\* the consumer a plan for the member list addrs assigns vb to, as a set
PlannedOwners(addrs, vb) ==
    {c \in Consumers :
        /\ NodeUUID(c) \in Range(addrs)
        /\ ConsumerName(c) < workerCount
        /\ vb \in Range(PlannedWorkers(addrs, NodeUUID(c), numVbuckets,
                                       workerCount)[ConsumerName(c)])}

\* vb is owned by c: blob, stats, stream and vbStreamRequested as a finished
\* takeover leaves them
OwnsInitially(c, vb) == vb < numVbuckets /\ c \in PlannedOwners(<<"A">>, vb)

InitConverge ==
    /\ members = <<"A", "B">>
    /\ numVbuckets = NumVbuckets
    /\ workerCount = WorkerCount
    /\ priorAddrs = [n \in Nodes |-> <<>>]
    /\ pcP = [n \in Nodes |-> "idle"]
    /\ eventingNodeAddrs = [n \in Nodes |-> IF n = "A" THEN <<"A">> ELSE <<>>]
    /\ vbEventingNodeAssignMap =
          [n \in Nodes |-> PlannedMap(eventingNodeAddrs[n], numVbuckets)]
    /\ workerVbucketMap =
          [n \in Nodes |-> PlannedWorkers(eventingNodeAddrs[n], n, numVbuckets, workerCount)]
    /\ blob = [vb \in ProtoVbs |->
                 IF vb < numVbuckets
                 THEN OwnedBlob(CHOOSE c \in Consumers : OwnsInitially(c, vb))
                 ELSE UninitialisedBlob]
    /\ rebalances = 0
    /\ alive = ProtoNodes
    /\ vbProcessingStats =
          [c \in Consumers |-> [vb \in ProtoVbs |->
              IF OwnsInitially(c, vb) THEN RunningStats(c) ELSE NoStats]]
    /\ vbStreamRequested = [c \in Consumers |-> {vb \in ProtoVbs : OwnsInitially(c, vb)}]
    /\ stream = [c \in Consumers |-> [vb \in ProtoVbs |->
                    IF OwnsInitially(c, vb) THEN "open" ELSE "none"]]
    /\ vbsStreamClosed = [c \in Consumers |-> {}]
    /\ timerDirCopied = [c \in Consumers |-> {}]
    /\ isRebalanceOngoing = [c \in Consumers |-> FALSE]
    /\ vbsRemainingToOwn = [c \in Consumers |-> <<>>]
    /\ vbsRemainingToGiveUp = [c \in Consumers |-> <<>>]
    /\ vbsts = [c \in Consumers |-> {}]
    /\ pcMain = [c \in Consumers |-> "idle"]
    /\ giveup = [c \in Consumers |-> RoutineOff]
    /\ takeover = [c \in Consumers |-> [t \in Routines |-> RoutineOff]]
    /\ stopVbOwnerTakeoverCh = [c \in Consumers |-> 0]
    /\ stopVbOwnerGiveupCh = [c \in Consumers |-> 0]
    /\ NoCalls

\* dcpRequestStreamHandle returns without error
StreamRequested(c, t) ==
    /\ TakeoverRequest(c, t)
    /\ stream'[c] # stream[c]

NextConverge ==
    \/ \E n \in ProtoNodes : Replan(n)
    \/ \E n \in ProtoNodes : InitWorkerVbMap(n)
    \/ \E c \in Spawned : VbsStateUpdate(c)
    \/ \E c \in Spawned : TakeoverRoundDone(c)
    \/ \E c \in Spawned : VbsStateUpdateReturn(c)
    \/ \E c \in Spawned : GiveUpRead(c)
    \/ \E c \in Spawned : GiveUpCheck(c)
    \/ \E c \in Spawned : GiveUpReread(c)
    \/ \E c \in Spawned : UpdateCheckpoint(c)
    \/ \E c \in Spawned : GiveUpPollExit(c)
    \/ \E c \in Spawned : TakeoverRead(c, TakeoverShard)
    \/ \E c \in Spawned : TakeoverDispatch(c, TakeoverShard)
    \/ \E c \in Spawned : TakeoverPresent(c, TakeoverShard)
    \/ \E c \in Spawned : TakeoverRequest(c, TakeoverShard)
    \/ \E c \in Spawned : TakeoverTimerTransfer(c, TakeoverShard)
    \/ \E c \in Spawned, vb \in ProtoVbs : StreamOpened(c, vb)
    \/ \E c \in Spawned, vb \in ProtoVbs : StreamEnd(c, vb)
    \/ \E c \in Spawned, vb \in ProtoVbs : CheckpointLoop(c, vb)

\* every producer and every routine of every consumer keeps being scheduled,
\* the DCP producer answers, and a stream request does not fail forever
FairConverge ==
    /\ \A n \in ProtoNodes : WF_vars(Replan(n)) /\ WF_vars(InitWorkerVbMap(n))
    /\ \A c \in Consumers :
          /\ WF_vars(VbsStateUpdate(c))
          /\ WF_vars(TakeoverRoundDone(c))
          /\ WF_vars(VbsStateUpdateReturn(c))
          /\ WF_vars(GiveUpRead(c))
          /\ WF_vars(GiveUpCheck(c))
          /\ WF_vars(GiveUpReread(c))
          /\ WF_vars(UpdateCheckpoint(c))
          /\ WF_vars(GiveUpPollExit(c))
          /\ WF_vars(TakeoverRead(c, TakeoverShard))
          /\ WF_vars(TakeoverDispatch(c, TakeoverShard))
          /\ WF_vars(TakeoverPresent(c, TakeoverShard))
          /\ WF_vars(TakeoverRequest(c, TakeoverShard))
          /\ SF_vars(StreamRequested(c, TakeoverShard))
          /\ WF_vars(TakeoverTimerTransfer(c, TakeoverShard))
          /\ \A vb \in ProtoVbs : WF_vars(StreamOpened(c, vb)) /\ WF_vars(StreamEnd(c, vb))

SpecConverge == InitConverge /\ [][NextConverge]_vars /\ FairConverge

----------------------------------------------------------------------------
(* Cancellation specification: the convergence specification, in which a    *)
(* running rebalance pass of a consumer can be told to stop.                *)

\* the rebalance pass of consumer c is told to stop: one signal for its
\* give-up routine and one for its takeover routine
NotifyRebalanceStop(c) ==
    /\ c[1] \in alive
    /\ pcMain[c] # "idle"
    /\ stopVbOwnerTakeoverCh[c] = 0
    /\ stopVbOwnerGiveupCh[c] = 0
    /\ stopVbOwnerTakeoverCh' = [stopVbOwnerTakeoverCh EXCEPT ![c] = 1]
    /\ stopVbOwnerGiveupCh' = [stopVbOwnerGiveupCh EXCEPT ![c] = 1]
    /\ UNCHANGED <<callVars, planVars, storeVars, vbProcessingStats, vbStreamRequested,
                   vbsStreamClosed, stream, timerDirCopied, isRebalanceOngoing,
                   vbsRemainingToOwn, vbsRemainingToGiveUp, vbsts, pcMain, giveup,
                   takeover>>

NextCancel ==
    \/ NextConverge
    \/ \E c \in Spawned : NotifyRebalanceStop(c)
    \/ \E c \in Spawned : GiveUpPollStop(c)

SpecCancel == InitConverge /\ [][NextCancel]_vars

----------------------------------------------------------------------------
(* Migration specification: node A runs one worker more over one vbucket    *)
(* more, its workers own every vbucket, and node B has joined but is not up *)
(* yet: the plan for both nodes moves a vbucket from one worker of node A   *)
(* to the other.                                                            *)

InitMigrate ==
    /\ members = <<"A", "B">>
    /\ numVbuckets = NumVbuckets + 1
    /\ workerCount = WorkerCount + 1
    /\ priorAddrs = [n \in Nodes |-> <<>>]
    /\ pcP = [n \in Nodes |-> "idle"]
    /\ eventingNodeAddrs = [n \in Nodes |-> IF n = "A" THEN <<"A">> ELSE <<>>]
    /\ vbEventingNodeAssignMap =
          [n \in Nodes |-> PlannedMap(eventingNodeAddrs[n], numVbuckets)]
    /\ workerVbucketMap =
          [n \in Nodes |-> PlannedWorkers(eventingNodeAddrs[n], n, numVbuckets, workerCount)]
    /\ blob = [vb \in ProtoVbs |->
                 IF vb < numVbuckets
                 THEN OwnedBlob(CHOOSE c \in Consumers : OwnsInitially(c, vb))
                 ELSE UninitialisedBlob]
    /\ rebalances = 0
    /\ alive = {"A"}
    /\ vbProcessingStats =
          [c \in Consumers |-> [vb \in ProtoVbs |->
              IF OwnsInitially(c, vb) THEN RunningStats(c) ELSE NoStats]]
    /\ vbStreamRequested = [c \in Consumers |-> {vb \in ProtoVbs : OwnsInitially(c, vb)}]
    /\ stream = [c \in Consumers |-> [vb \in ProtoVbs |->
                    IF OwnsInitially(c, vb) THEN "open" ELSE "none"]]
    /\ vbsStreamClosed = [c \in Consumers |-> {}]
    /\ timerDirCopied = [c \in Consumers |-> {}]
    /\ isRebalanceOngoing = [c \in Consumers |-> FALSE]
    /\ vbsRemainingToOwn = [c \in Consumers |-> <<>>]
    /\ vbsRemainingToGiveUp = [c \in Consumers |-> <<>>]
    /\ vbsts = [c \in Consumers |-> {}]
    /\ pcMain = [c \in Consumers |-> "idle"]
    /\ giveup = [c \in Consumers |-> RoutineOff]
    /\ takeover = [c \in Consumers |-> [t \in Routines |-> RoutineOff]]
    /\ stopVbOwnerTakeoverCh = [c \in Consumers |-> 0]
    /\ stopVbOwnerGiveupCh = [c \in Consumers |-> 0]
    /\ NoCalls

SpecMigrate == InitMigrate /\ [][NextConverge]_vars

----------------------------------------------------------------------------
(* Takeover specification: doVbTakeover of one consumer, called through     *)
(* reclaimVbOwnership, on every kind of blob it can read for a vbucket,     *)
(* under either member list and with node B up or down.  Node C owned       *)
(* vbuckets once and is down.                                               *)

\* a dcp_stream_status other than running, stopped and uninitialised
dcpStreamUnknown == "unknown"

\* owner and previous owner fields of the blobs read: none or a consumer
BlobOwners == {<<NoNode, NoWorker>>, <<"A", 0>>, <<"A", 1>>, <<"B", 0>>, <<"C", 0>>}
BlobPreviousOwners == {<<NoNode, NoWorker>>, <<"A", 0>>, <<"B", 0>>}

TakeoverBlobs ==
    {[node_uuid |-> o[1], assigned_worker |-> o[2], current_vb_owner |-> o[1],
      dcp_stream_status |-> st,
      previous_node_uuid |-> po[1], previous_assigned_worker |-> po[2],
      previous_vb_owner |-> po[1],
      previous_eventing_dir |-> IF po[1] = NoNode THEN NoDir ELSE ConsumerEventingDir(po),
      last_processed_seq_no |-> 0, last_doc_timer_feedback_seqno |-> 0] :
        o \in BlobOwners, po \in BlobPreviousOwners,
        st \in {dcpStreamRunning, dcpStreamStopped, dcpStreamUninitialised,
                dcpStreamUnknown}}

InitTakeover ==
    /\ members \in ProtoMemberLists
    /\ numVbuckets = NumVbuckets
    /\ workerCount = WorkerCount + 1
    /\ priorAddrs = [n \in Nodes |-> <<>>]
    /\ pcP = [n \in Nodes |-> "idle"]
    /\ eventingNodeAddrs = [n \in Nodes |-> IF n = "A" THEN members ELSE <<>>]
    /\ vbEventingNodeAssignMap =
          [n \in Nodes |-> PlannedMap(eventingNodeAddrs[n], numVbuckets)]
    /\ workerVbucketMap =
          [n \in Nodes |-> PlannedWorkers(eventingNodeAddrs[n], n, numVbuckets, workerCount)]
    /\ \E v \in 0..(numVbuckets - 1), b \in TakeoverBlobs :
          blob = [vb \in ProtoVbs |-> IF vb = v THEN b ELSE UninitialisedBlob]
    /\ rebalances = 0
    /\ alive \in {{"A"}, {"A", "B"}}
    /\ QuietConsumers
    /\ NoCalls

\* the routine that makes the calls, one after the other
TakeoverCaller == "reclaim1"

NextTakeover ==
    \/ \E vb \in 0..(numVbuckets - 1) :
          ReclaimVbOwnership(StreamConsumer, TakeoverCaller, vb)
    \/ ReclaimReturn(StreamConsumer, TakeoverCaller)
    \/ TakeoverRead(StreamConsumer, TakeoverCaller)
    \/ TakeoverDispatch(StreamConsumer, TakeoverCaller)
    \/ TakeoverPresent(StreamConsumer, TakeoverCaller)
    \/ TakeoverRequest(StreamConsumer, TakeoverCaller)
    \/ TakeoverTimerTransfer(StreamConsumer, TakeoverCaller)
    \/ \E vb \in ProtoVbs : StreamOpened(StreamConsumer, vb)

SpecTakeover == InitTakeover /\ [][NextTakeover]_vars

----------------------------------------------------------------------------
(* IPC codec: makeHeader and makeThrMapPayload build flatbuffers tables,    *)
(* which the peer reads through the generated accessors.  A flatbuffers     *)
(* builder writes back to front: every Prepend puts its element before      *)
(* what was written so far, and a vector is read in buffer order.           *)

MaxThreads == 2     \* most threads in a thread map
MaxThrLen == 2      \* most partitions of one thread

Int8s == {0, 1, 4, 127}             \* event and opcode values (int8)
Int16s == {0, 1, 1023}              \* partition of a header (int16)
Uint16s == {0, 1, 1023}             \* partitions of a thread map (uint16)
Metas == {"", "meta"}               \* metadata strings
PartitionCounts == {0, 2, 1024}     \* partitionCount: the number of vbuckets

\* int16(x) of an int
Int16(x) == ((x + 32768) % 65536) - 32768

\* builder.PrependUint16 / builder.PrependUOffsetT: x goes before the buffer
Prepend(buf, x) == <<x>> \o buf

\* builder.EndVector(n): the vector is the n elements written last, as they
\* lie in the buffer
EndVector(buf, n) == SubSeq(buf, 1, n)

\* for j := 0; j < len(s); j++ { builder.Prepend(s[j]) }
RECURSIVE PrependAscending(_, _, _)
PrependAscending(buf, s, j) ==
    IF j > Len(s) THEN buf ELSE PrependAscending(Prepend(buf, s[j]), s, j + 1)

\* for i := len(s) - 1; i >= 0; i-- { builder.Prepend(s[i]) }
RECURSIVE PrependDescending(_, _, _)
PrependDescending(buf, s, i) ==
    IF i < 1 THEN buf ELSE PrependDescending(Prepend(buf, s[i]), s, i - 1)

\* lines 228-233: the partitions vector of one thread
PartitionsVector(s) == EndVector(PrependAscending(<<>>, s, 1), Len(s))

\* a table's scalar field: a value equal to the default is not stored
AddScalar(table, field, x, default) ==
    IF x = default THEN table
    ELSE [f \in DOMAIN table \cup {field} |-> IF f = field THEN x ELSE table[f]]

\* a table's offset field (string, vector): always stored
AddOffset(table, field, x) ==
    [f \in DOMAIN table \cup {field} |-> IF f = field THEN x ELSE table[f]]

\* the generated accessor of a scalar field
ReadScalar(table, field, default) ==
    IF field \in DOMAIN table THEN table[field] ELSE default

EmptyTable == [f \in {} |-> 0]

\* makeHeader(event, opcode, partition, meta)
makeHeader(event, opcode, partition, meta) ==
    LET t1 == AddScalar(EmptyTable, "event", event, 0)
        t2 == AddScalar(t1, "opcode", opcode, 0)
        t3 == AddScalar(t2, "partition", partition, 0)
    IN  AddOffset(t3, "metadata", meta)

\* Header.Event(), Opcode(), Partition(), string(Metadata())
decodeHeader(table) ==
    [event |-> ReadScalar(table, "event", 0),
     opcode |-> ReadScalar(table, "opcode", 0),
     partition |-> ReadScalar(table, "partition", 0),
     metadata |-> IF "metadata" \in DOMAIN table THEN table["metadata"] ELSE ""]

\* thrMap[i] of a Go map: the zero value (no partitions) for a missing key
ThrMapAt(thrMap, i) == IF i \in DOMAIN thrMap THEN thrMap[i] ELSE <<>>

\* makeThrMapPayload(thrMap, partitionCount)
makeThrMapPayload(thrMap, partitionCount) ==
    LET n == Cardinality(DOMAIN thrMap)
        tMaps == [k \in 1..n |->
                    LET t1 == AddOffset(EmptyTable, "partitions",
                                        PartitionsVector(ThrMapAt(thrMap, k - 1)))
                    IN  AddScalar(t1, "threadID", Int16(k - 1), 0)]
        resMap == EndVector(PrependDescending(<<>>, tMaps, n), n)
        p1 == AddOffset(EmptyTable, "thrMap", resMap)
    IN  AddScalar(p1, "partitionCount", Int16(partitionCount), 0)

\* Payload.ThrMap(j), VbsThreadMap.ThreadID(), Partitions(j), PartitionCount()
decodeThrMapPayload(table) ==
    LET resMap == table["thrMap"]
        ids == {ReadScalar(resMap[k], "threadID", 0) : k \in 1..Len(resMap)}
        entry(i) == CHOOSE k \in 1..Len(resMap) :
                        ReadScalar(resMap[k], "threadID", 0) = i
    IN  [thrMap |-> [i \in ids |-> resMap[entry(i)]["partitions"]],
         partitionCount |-> ReadScalar(table, "partitionCount", 0)]

\* the cluster and its consumers before anything has happened
PristineCluster ==
    /\ members = <<"A">>
    /\ numVbuckets = NumVbuckets
    /\ workerCount = WorkerCount
    /\ priorAddrs = [n \in Nodes |-> <<>>]
    /\ pcP = [n \in Nodes |-> "idle"]
    /\ eventingNodeAddrs = [n \in Nodes |-> <<>>]
    /\ vbEventingNodeAssignMap = [n \in Nodes |-> EmptyMap]
    /\ workerVbucketMap = [n \in Nodes |-> NoWorkerMap]
    /\ blob = [vb \in ProtoVbs |-> UninitialisedBlob]
    /\ rebalances = 0
    /\ alive = ProtoNodes
    /\ QuietConsumers

\* the lists of at most n partitions
PartitionLists(n) == UNION {[1..k -> Uint16s] : k \in 0..n}

\* the frames handed to the codec
HeaderFrames ==
    [kind : {"header"}, event : Int8s, opcode : Int8s, partition : Int16s,
     metadata : Metas]

ThrMapFrames ==
    UNION {[kind : {"thrMap"}, thrMap : [0..(n - 1) -> PartitionLists(MaxThrLen)],
            partitionCount : PartitionCounts] : n \in 0..MaxThreads}

InitCodec ==
    /\ PristineCluster
    /\ \E f \in HeaderFrames \cup ThrMapFrames : codec = [pc |-> "frame", frame |-> f]
    /\ depcfg = [pc |-> "idle"]
    /\ seqReq = [pc |-> "idle"]
    /\ route = [pc |-> "off"]

\* the host builds the header
MakeHeader ==
    /\ codec.pc = "frame"
    /\ codec.frame.kind = "header"
    /\ codec' = [pc |-> "encoded", frame |-> codec.frame,
                 bytes |-> makeHeader(codec.frame.event, codec.frame.opcode,
                                      codec.frame.partition, codec.frame.metadata)]
    /\ UNCHANGED <<planVars, storeVars, consumerVars, depcfg, seqReq, route>>

\* the host builds the thread map payload
MakeThrMapPayload ==
    /\ codec.pc = "frame"
    /\ codec.frame.kind = "thrMap"
    /\ codec' = [pc |-> "encoded", frame |-> codec.frame,
                 bytes |-> makeThrMapPayload(codec.frame.thrMap,
                                             codec.frame.partitionCount)]
    /\ UNCHANGED <<planVars, storeVars, consumerVars, depcfg, seqReq, route>>

\* the peer reads the header
ReadHeader ==
    /\ codec.pc = "encoded"
    /\ codec.frame.kind = "header"
    /\ codec' = [pc |-> "decoded", frame |-> codec.frame, bytes |-> codec.bytes,
                 decoded |-> decodeHeader(codec.bytes)]
    /\ UNCHANGED <<planVars, storeVars, consumerVars, depcfg, seqReq, route>>

\* the peer reads the thread map payload
ReadThrMapPayload ==
    /\ codec.pc = "encoded"
    /\ codec.frame.kind = "thrMap"
    /\ codec' = [pc |-> "decoded", frame |-> codec.frame, bytes |-> codec.bytes,
                 decoded |-> decodeThrMapPayload(codec.bytes)]
    /\ UNCHANGED <<planVars, storeVars, consumerVars, depcfg, seqReq, route>>

NextCodec == MakeHeader \/ MakeThrMapPayload \/ ReadHeader \/ ReadThrMapPayload

SpecCodec == InitCodec /\ [][NextCodec]_vars

----------------------------------------------------------------------------
(* parseDepcfg: the Producer loads an application's settings document       *)

MaxOddKeys == 2     \* most keys by which a document differs from the full or
                    \* the empty one

\* the recognised keys, in the order parseDepcfg looks them up
ParseOrder ==
    <<"cleanup_timers", "dcp_stream_boundary", "log_level", "tick_duration",
      "worker_count", "timer_worker_pool_size", "sock_batch_size",
      "skip_timer_threshold", "rbacuser", "rbacpass", "lcb_inst_capacity",
      "enable_recursive_mutation", "deadline_timeout",
      "vb_ownership_giveup_routine_count", "vb_ownership_takeover_routine_count",
      "execution_timeout", "fuzz_offset", "cpp_worker_thread_count",
      "memory_quota", "xattr_doc_timer_entry_prune_threshold", "app_log_dir",
      "app_log_max_size", "app_log_max_files", "curl_timeout", "worker_queue_cap">>

SettingKeys == {ParseOrder[i] : i \in 1..Len(ParseOrder)}

RequiredKeys == {"rbacuser", "rbacpass"}

\* the Go type a key's value is asserted to have
KeyType(k) ==
    IF k \in {"cleanup_timers", "enable_recursive_mutation"} THEN "bool"
    ELSE IF k \in {"dcp_stream_boundary", "log_level", "rbacuser", "rbacpass",
                   "app_log_dir"} THEN "string"
    ELSE "float64"

\* the Producer field a key is stored in
FieldOf(k) ==
    CASE k = "cleanup_timers" -> "cleanupTimers"
      [] k = "dcp_stream_boundary" -> "dcpStreamBoundary"
      [] k = "log_level" -> "logLevel"
      [] k = "tick_duration" -> "statsTickDuration"
      [] k = "worker_count" -> "workerCount"
      [] k = "timer_worker_pool_size" -> "timerWorkerPoolSize"
      [] k = "sock_batch_size" -> "socketWriteBatchSize"
      [] k = "skip_timer_threshold" -> "skipTimerThreshold"
      [] k = "rbacuser" -> "rbacUser"
      [] k = "rbacpass" -> "rbacPass"
      [] k = "lcb_inst_capacity" -> "lcbInstCapacity"
      [] k = "enable_recursive_mutation" -> "enableRecursiveMutation"
      [] k = "deadline_timeout" -> "socketTimeout"
      [] k = "vb_ownership_giveup_routine_count" -> "vbOwnershipGiveUpRoutineCount"
      [] k = "vb_ownership_takeover_routine_count" -> "vbOwnershipTakeoverRoutineCount"
      [] k = "execution_timeout" -> "executionTimeout"
      [] k = "fuzz_offset" -> "fuzzOffset"
      [] k = "cpp_worker_thread_count" -> "cppWorkerThrCount"
      [] k = "memory_quota" -> "plasmaMemQuota"
      [] k = "xattr_doc_timer_entry_prune_threshold" -> "xattrEntryPruneThreshold"
      [] k = "app_log_dir" -> "appLogPath"
      [] k = "app_log_max_size" -> "appLogMaxSize"
      [] k = "app_log_max_files" -> "appLogMaxFiles"
      [] k = "curl_timeout" -> "curlTimeout"
      [] k = "worker_queue_cap" -> "workerQueueCap"

Fields == {FieldOf(k) : k \in SettingKeys}

eventingDir == "eventingDir"
appName == "app"

\* the value a field gets when its key is absent (durations in nanoseconds)
DefaultOf(k) ==
    CASE k = "cleanup_timers" -> FALSE
      [] k = "dcp_stream_boundary" -> "everything"
      [] k = "log_level" -> "INFO"
      [] k = "tick_duration" -> 5000
      [] k = "worker_count" -> 3
      [] k = "timer_worker_pool_size" -> 3
      [] k = "sock_batch_size" -> 100
      [] k = "skip_timer_threshold" -> 86400
      [] k = "lcb_inst_capacity" -> 5
      [] k = "enable_recursive_mutation" -> FALSE
      [] k = "deadline_timeout" -> 2 * 1000000000
      [] k = "vb_ownership_giveup_routine_count" -> 3
      [] k = "vb_ownership_takeover_routine_count" -> 3
      [] k = "execution_timeout" -> 1
      [] k = "fuzz_offset" -> 30
      [] k = "cpp_worker_thread_count" -> 1
      [] k = "memory_quota" -> 256
      [] k = "xattr_doc_timer_entry_prune_threshold" -> 100
      [] k = "app_log_dir" -> <<eventingDir, "/", appName, ".log">>
      [] k = "app_log_max_size" -> 1024 * 1024 * 10
      [] k = "app_log_max_files" -> 10
      [] k = "curl_timeout" -> 500
      [] k = "worker_queue_cap" -> 1000 * 1000
      [] OTHER -> ""

\* a JSON value as json.Unmarshal stores it in an interface{}: its dynamic
\* type and the value, in the slot of that type
Float64Value(x) == [type |-> "float64", num |-> x, str |-> "", bool |-> FALSE]
StringValue(x) == [type |-> "string", num |-> 0, str |-> x, bool |-> FALSE]
BoolValue(x) == [type |-> "bool", num |-> 0, str |-> "", bool |-> x]
OtherValue == [type |-> "other", num |-> 0, str |-> "", bool |-> FALSE]

\* val.(bool), val.(string), int(val.(float64)) of a value of that type
Asserted(k, v) ==
    IF KeyType(k) = "bool" THEN v.bool
    ELSE IF KeyType(k) = "string" THEN v.str
    ELSE v.num

\* the value a field gets from a present, well-typed value
FromSetting(k, v) ==
    CASE k = "deadline_timeout" -> Asserted(k, v) * 1000000000
      [] k = "app_log_dir" -> <<Asserted(k, v), "/", appName>>
      [] OTHER -> Asserted(k, v)

\* the zero value of a field of a new Producer
ZeroOf(k) ==
    IF k = "app_log_dir" THEN <<>>
    ELSE IF KeyType(k) = "bool" THEN FALSE
    ELSE IF KeyType(k) = "string" THEN ""
    ELSE 0

NewProducerFields ==
    [f \in Fields |-> ZeroOf(CHOOSE k \in SettingKeys : FieldOf(k) = f)]

\* Mutant: only the user name is required
MissingKeyError_UserOnly(k) ==
    IF k = "rbacuser" THEN "rbac username missing" ELSE "none"

\* lines 112-124: the error returned for an absent key, "none" for a key that
\* has a default
MissingKeyError(k) ==
    IF k = "rbacuser" THEN "rbac username missing"
    ELSE IF k = "rbacpass" THEN "rbac password missing"
    ELSE "none"

\* lines 64-216: the lookups from the i-th on; val.(T) panics on a value of
\* another type
RECURSIVE ParseKeys(_, _, _)
ParseKeys(settings, p, i) ==
    IF i > Len(ParseOrder) THEN [p |-> p, err |-> "nil"]
    ELSE LET k == ParseOrder[i]
         IN  IF k \notin DOMAIN settings
             THEN IF MissingKeyError(k) # "none"
                  THEN [p |-> p, err |-> MissingKeyError(k)]
                  ELSE ParseKeys(settings, [p EXCEPT ![FieldOf(k)] = DefaultOf(k)], i + 1)
             ELSE IF settings[k].type # KeyType(k)
                  THEN [p |-> p, err |-> "panic"]
                  ELSE ParseKeys(settings,
                                 [p EXCEPT ![FieldOf(k)] = FromSetting(k, settings[k])],
                                 i + 1)

\* what the calls parseDepcfg makes outside the Producer can do
EnvOutcomes ==
    {"ok", "metakvGetFailed", "unmarshalFailed", "localHostFailed", "kvNodesFailed"}

NoSettings == [k \in {} |-> OtherValue]

\* parseDepcfg: the Producer fields, p.app.Settings and the error returned
\* ("panic" when the call panics)
parseDepcfg(settings, env) ==
    LET new == [p |-> NewProducerFields, appSettings |-> NoSettings]
        keys == ParseKeys(settings, NewProducerFields, 1)
    IN  IF env = "metakvGetFailed" THEN new @@ [err |-> "sErr"]
        ELSE IF env = "unmarshalFailed" THEN new @@ [err |-> "uErr"]
        ELSE IF keys.err # "nil"
             THEN [p |-> keys.p, appSettings |-> NoSettings, err |-> keys.err]
        ELSE LET loaded == [p |-> keys.p, appSettings |-> settings]
             IN  IF \/ "log_level" \notin DOMAIN settings
                    \/ settings["log_level"].type # "string"
                 THEN loaded @@ [err |-> "panic"]
                 ELSE IF keys.p["workerCount"] <= 0
                 THEN loaded @@ [err |-> "errorUnexpectedWorkerCount"]
                 ELSE IF env = "localHostFailed"
                 THEN loaded @@ [err |-> "localEventingServiceHostErr"]
                 ELSE IF env = "kvNodesFailed"
                 THEN loaded @@ [err |-> "kvNodesAddressesErr"]
                 ELSE loaded @@ [err |-> "nil"]

\* the well-typed values of key k
SampleValues(k) ==
    IF KeyType(k) = "bool" THEN {BoolValue(TRUE)}
    ELSE IF k = "log_level" THEN {StringValue("DEBUG")}
    ELSE IF k = "worker_count" THEN {Float64Value(0), Float64Value(2)}
    ELSE IF KeyType(k) = "string" THEN {StringValue("text")}
    ELSE {Float64Value(2)}

\* keys whose value may be of another type than the one asserted
MistypedKeys == {"cleanup_timers", "log_level", "worker_count", "memory_quota"}

\* the sets of at most n keys
RECURSIVE SmallKeySets(_)
SmallKeySets(n) ==
    IF n = 0 THEN {{}}
    ELSE LET prev == SmallKeySets(n - 1)
         IN  prev \cup {K \cup {k} : K \in prev, k \in SettingKeys}

\* the key sets of the documents: all keys but a few, or only a few keys
DocumentKeys ==
    SmallKeySets(MaxOddKeys) \cup {SettingKeys \ K : K \in SmallKeySets(MaxOddKeys)}

\* the documents with keys K: every value well typed, but at most one
Documents(K) ==
    {[k \in K |-> IF k = bad THEN OtherValue
                  ELSE IF k = "worker_count" THEN wc
                  ELSE CHOOSE v \in SampleValues(k) : TRUE] :
        bad \in (MistypedKeys \cap K) \cup {"none"},
        wc \in SampleValues("worker_count")}

WellTyped(settings) == \A k \in DOMAIN settings : settings[k].type = KeyType(k)

InitDepcfg ==
    /\ PristineCluster
    /\ codec = [pc |-> "idle"]
    /\ seqReq = [pc |-> "idle"]
    /\ route = [pc |-> "off"]
    /\ \E K \in DocumentKeys : \E d \in Documents(K) :
          depcfg = [pc |-> "start", settings |-> d]

\* one call of parseDepcfg
ParseDepcfg ==
    /\ depcfg.pc = "start"
    /\ \E env \in EnvOutcomes :
          LET res == parseDepcfg(depcfg.settings, env)
          IN  depcfg' = [pc |-> "returned", settings |-> depcfg.settings,
                         p |-> res.p, appSettings |-> res.appSettings,
                         err |-> res.err]
    /\ UNCHANGED <<planVars, storeVars, consumerVars, codec, seqReq, route>>

NextDepcfg == ParseDepcfg

SpecDepcfg == InitDepcfg /\ [][NextDepcfg]_vars

----------------------------------------------------------------------------
(* The give-up specification: node A's two workers own every vbucket, some *)
(* of which they gave up in an earlier rebalance and took back; node B is  *)
(* added to the plan.                                                      *)

InitGiveUp ==
    /\ members = <<"A", "B">>
    /\ numVbuckets = NumVbuckets + 1
    /\ workerCount = WorkerCount + 1
    /\ priorAddrs = [n \in Nodes |-> <<>>]
    /\ pcP = [n \in Nodes |-> "idle"]
    /\ eventingNodeAddrs = [n \in Nodes |-> IF n = "A" THEN <<"A">> ELSE <<>>]
    /\ vbEventingNodeAssignMap =
          [n \in Nodes |-> PlannedMap(eventingNodeAddrs[n], numVbuckets)]
    /\ workerVbucketMap =
          [n \in Nodes |-> PlannedWorkers(eventingNodeAddrs[n], n, numVbuckets, workerCount)]
    /\ blob = [vb \in ProtoVbs |->
                 IF vb < numVbuckets
                 THEN OwnedBlob(CHOOSE c \in Consumers : OwnsInitially(c, vb))
                 ELSE UninitialisedBlob]
    /\ rebalances = 0
    /\ alive = {"A"}
    /\ vbProcessingStats =
          [c \in Consumers |-> [vb \in ProtoVbs |->
              IF OwnsInitially(c, vb) THEN RunningStats(c) ELSE NoStats]]
    /\ vbStreamRequested = [c \in Consumers |-> {vb \in ProtoVbs : OwnsInitially(c, vb)}]
    /\ stream = [c \in Consumers |-> [vb \in ProtoVbs |->
                    IF OwnsInitially(c, vb) THEN "open" ELSE "none"]]
    /\ \E S \in SUBSET ProtoVbs :
          vbsStreamClosed = [c \in Consumers |-> {vb \in S : OwnsInitially(c, vb)}]
    /\ timerDirCopied = [c \in Consumers |-> {}]
    /\ isRebalanceOngoing = [c \in Consumers |-> FALSE]
    /\ vbsRemainingToOwn = [c \in Consumers |-> <<>>]
    /\ vbsRemainingToGiveUp = [c \in Consumers |-> <<>>]
    /\ vbsts = [c \in Consumers |-> {}]
    /\ pcMain = [c \in Consumers |-> "idle"]
    /\ giveup = [c \in Consumers |-> RoutineOff]
    /\ takeover = [c \in Consumers |-> [t \in Routines |-> RoutineOff]]
    /\ stopVbOwnerTakeoverCh = [c \in Consumers |-> 0]
    /\ stopVbOwnerGiveupCh = [c \in Consumers |-> 0]
    /\ NoCalls

SpecGiveUp == InitGiveUp /\ [][NextConverge]_vars

----------------------------------------------------------------------------
(* The checkpoint specification: node A's two workers own every vbucket    *)
(* and B joins, from blobs whose timer feedback sequence number is behind, *)
(* level with or ahead of the last sequence number processed.              *)

InitCheckpoint ==
    /\ members = <<"A", "B">>
    /\ numVbuckets = NumVbuckets + 1
    /\ workerCount = WorkerCount + 1
    /\ priorAddrs = [n \in Nodes |-> <<>>]
    /\ pcP = [n \in Nodes |-> "idle"]
    /\ eventingNodeAddrs = [n \in Nodes |-> IF n = "A" THEN <<"A">> ELSE <<>>]
    /\ vbEventingNodeAssignMap =
          [n \in Nodes |-> PlannedMap(eventingNodeAddrs[n], numVbuckets)]
    /\ workerVbucketMap =
          [n \in Nodes |-> PlannedWorkers(eventingNodeAddrs[n], n, numVbuckets, workerCount)]
    /\ \E f \in [ProtoVbs -> 0..MaxSeq] :
          blob = [vb \in ProtoVbs |->
                    IF vb < numVbuckets
                    THEN [OwnedBlob(CHOOSE c \in Consumers : OwnsInitially(c, vb))
                            EXCEPT !.last_doc_timer_feedback_seqno = f[vb]]
                    ELSE UninitialisedBlob]
    /\ rebalances = 0
    /\ alive = {"A"}
    /\ vbProcessingStats =
          [c \in Consumers |-> [vb \in ProtoVbs |->
              IF OwnsInitially(c, vb) THEN RunningStats(c) ELSE NoStats]]
    /\ vbStreamRequested = [c \in Consumers |-> {vb \in ProtoVbs : OwnsInitially(c, vb)}]
    /\ stream = [c \in Consumers |-> [vb \in ProtoVbs |->
                    IF OwnsInitially(c, vb) THEN "open" ELSE "none"]]
    /\ vbsStreamClosed = [c \in Consumers |-> {}]
    /\ timerDirCopied = [c \in Consumers |-> {}]
    /\ isRebalanceOngoing = [c \in Consumers |-> FALSE]
    /\ vbsRemainingToOwn = [c \in Consumers |-> <<>>]
    /\ vbsRemainingToGiveUp = [c \in Consumers |-> <<>>]
    /\ vbsts = [c \in Consumers |-> {}]
    /\ pcMain = [c \in Consumers |-> "idle"]
    /\ giveup = [c \in Consumers |-> RoutineOff]
    /\ takeover = [c \in Consumers |-> [t \in Routines |-> RoutineOff]]
    /\ stopVbOwnerTakeoverCh = [c \in Consumers |-> 0]
    /\ stopVbOwnerGiveupCh = [c \in Consumers |-> 0]
    /\ NoCalls

SpecCheckpoint == InitCheckpoint /\ [][NextConverge]_vars

----------------------------------------------------------------------------
(* The passes specification: the cancellation specification with one more  *)
(* membership change, made while no consumer is inside vbsStateUpdate, so  *)
(* that a consumer runs vbsStateUpdate with work to do more than once.     *)

\* the membership oracle reports a new member list between two passes
MembershipChangeBetweenPasses ==
    /\ \A c \in Consumers : pcMain[c] = "idle"
    /\ MembershipChange

\* the cancellation specification without checkpointLoop: the sequence
\* numbers play no part in the passes
NextPasses ==
    \/ \E n \in ProtoNodes : Replan(n)
    \/ \E n \in ProtoNodes : InitWorkerVbMap(n)
    \/ \E c \in Spawned : VbsStateUpdate(c)
    \/ \E c \in Spawned : TakeoverRoundDone(c)
    \/ \E c \in Spawned : VbsStateUpdateReturn(c)
    \/ \E c \in Spawned : GiveUpRead(c)
    \/ \E c \in Spawned : GiveUpCheck(c)
    \/ \E c \in Spawned : GiveUpReread(c)
    \/ \E c \in Spawned : UpdateCheckpoint(c)
    \/ \E c \in Spawned : GiveUpPollExit(c)
    \/ \E c \in Spawned : GiveUpPollStop(c)
    \/ \E c \in Spawned : TakeoverRead(c, TakeoverShard)
    \/ \E c \in Spawned : TakeoverDispatch(c, TakeoverShard)
    \/ \E c \in Spawned : TakeoverPresent(c, TakeoverShard)
    \/ \E c \in Spawned : TakeoverRequest(c, TakeoverShard)
    \/ \E c \in Spawned : TakeoverTimerTransfer(c, TakeoverShard)
    \/ \E c \in Spawned, vb \in ProtoVbs : StreamOpened(c, vb)
    \/ \E c \in Spawned, vb \in ProtoVbs : StreamEnd(c, vb)
    \/ \E c \in Spawned : NotifyRebalanceStop(c)
    \/ MembershipChangeBetweenPasses

SpecPasses == InitConverge /\ [][NextPasses]_vars

----------------------------------------------------------------------------
(* The sequence number of the stream request: lines 363-373 of              *)
(* updateVbOwnerAndStartDCPStream, on every pair of sequence numbers a blob *)
(* can hold.                                                                *)

MaxBlobSeqNo == 9   \* largest sequence number in a blob

BlobSeqNos == 0..MaxBlobSeqNo

\* Mutant: the stream starts where processing stopped
streamStartSeqNo_LastProcessed(vbBlob) == vbBlob.last_processed_seq_no

\* lines 366-371
streamStartSeqNo(vbBlob) ==
    IF vbBlob.last_doc_timer_feedback_seqno < vbBlob.last_processed_seq_no
    THEN vbBlob.last_doc_timer_feedback_seqno
    ELSE vbBlob.last_processed_seq_no

InitStartSeq ==
    /\ PristineCluster
    /\ codec = [pc |-> "idle"]
    /\ depcfg = [pc |-> "idle"]
    /\ route = [pc |-> "off"]
    /\ \E p \in BlobSeqNos, f \in BlobSeqNos :
          seqReq = [pc |-> "blob",
                    vbBlob |-> [last_processed_seq_no |-> p,
                                last_doc_timer_feedback_seqno |-> f]]

\* lines 363-373: the stats get the blob's sequence numbers and the stream is
\* requested (dcpRequestStreamHandle is called) at streamStartSeqNo
RequestStreamAtSeqNo ==
    /\ seqReq.pc = "blob"
    /\ seqReq' = [pc |-> "requested", vbBlob |-> seqReq.vbBlob,
                  stats |-> [last_processed_seq_no |-> seqReq.vbBlob.last_processed_seq_no,
                             last_doc_timer_feedback_seqno |->
                                 seqReq.vbBlob.last_doc_timer_feedback_seqno],
                  requestedAt |-> streamStartSeqNo(seqReq.vbBlob)]
    /\ UNCHANGED <<planVars, storeVars, consumerVars, codec, depcfg, route>>

NextStartSeq == RequestStreamAtSeqNo

SpecStartSeq == InitStartSeq /\ [][NextStartSeq]_vars

----------------------------------------------------------------------------
(* The sets specification: getVbRemainingToGiveUp and getVbRemainingToOwn, *)
(* lines 181-182 of vbsStateUpdate, on every plan of node A for two        *)
(* workers and every contents of the consumer's per-vbucket stats.         *)

\* what the stats of a vbucket can hold
StatsEntries ==
    {NoStats, StoppedStats} \cup {RunningStats(c) : c \in {<<"A", 0>>, <<"A", 1>>, <<"B", 0>>}}

InitSets ==
    /\ members \in ProtoMemberLists
    /\ numVbuckets = NumVbuckets + 1
    /\ workerCount = WorkerCount + 1
    /\ priorAddrs = [n \in Nodes |-> <<>>]
    /\ pcP = [n \in Nodes |-> "idle"]
    /\ eventingNodeAddrs = [n \in Nodes |-> IF n = "A" THEN members ELSE <<>>]
    /\ vbEventingNodeAssignMap =
          [n \in Nodes |-> PlannedMap(eventingNodeAddrs[n], numVbuckets)]
    /\ workerVbucketMap =
          [n \in Nodes |-> PlannedWorkers(eventingNodeAddrs[n], n, numVbuckets, workerCount)]
    /\ blob = [vb \in ProtoVbs |-> UninitialisedBlob]
    /\ rebalances = 0
    /\ alive = {"A"}
    /\ \E sts \in [ProtoVbs -> StatsEntries] :
          vbProcessingStats =
              [c \in Consumers |-> IF c = StreamConsumer THEN sts
                                   ELSE [vb \in ProtoVbs |-> NoStats]]
    /\ vbStreamRequested = [c \in Consumers |-> {}]
    /\ vbsStreamClosed = [c \in Consumers |-> {}]
    /\ stream = [c \in Consumers |-> [vb \in ProtoVbs |-> "none"]]
    /\ timerDirCopied = [c \in Consumers |-> {}]
    /\ isRebalanceOngoing = [c \in Consumers |-> FALSE]
    /\ vbsRemainingToOwn = [c \in Consumers |-> <<>>]
    /\ vbsRemainingToGiveUp = [c \in Consumers |-> <<>>]
    /\ vbsts = [c \in Consumers |-> {}]
    /\ pcMain = [c \in Consumers |-> "idle"]
    /\ giveup = [c \in Consumers |-> RoutineOff]
    /\ takeover = [c \in Consumers |-> [t \in Routines |-> RoutineOff]]
    /\ stopVbOwnerTakeoverCh = [c \in Consumers |-> 0]
    /\ stopVbOwnerGiveupCh = [c \in Consumers |-> 0]
    /\ NoCalls

NextSets == VbsStateUpdate(StreamConsumer)

SpecSets == InitSets /\ [][NextSets]_vars

----------------------------------------------------------------------------
(* routeResponse: the responses of the worker process are routed into the  *)
(* consumer's fields; the four stats caches are guarded by statsRWMutex,   *)
(* which the readers of the stats take shared.                             *)

MaxResponses == 2   \* responses routed in one behaviour

respV8WorkerConfig == "respV8WorkerConfig"
MsgTypes == {respV8WorkerConfig, "otherMsgType"}
Opcodes == {"sourceMap", "handlerCode", "latencyStats", "failureStats",
            "executionStats", "compileInfo", "queueSize", "lcbExceptions",
            "otherOpcode"}

\* the field of the consumer an opcode is routed to
RoutedField(opcode) ==
    CASE opcode = "sourceMap" -> "sourceMap"
      [] opcode = "handlerCode" -> "handlerCode"
      [] opcode = "latencyStats" -> "latencyStats"
      [] opcode = "failureStats" -> "failureStats"
      [] opcode = "executionStats" -> "executionStats"
      [] opcode = "compileInfo" -> "compileInfo"
      [] opcode = "queueSize" -> "cppWorkerAggQueueSize"
      [] opcode = "lcbExceptions" -> "lcbExceptionStats"
      [] OTHER -> "none"

RoutedFields == {RoutedField(o) : o \in Opcodes} \ {"none"}
StatsFields == {"latencyStats", "failureStats", "executionStats", "lcbExceptionStats"}

\* lines 391-394: the message is assigned as it is
AssignsMsg(opcode) == opcode \in {"sourceMap", "handlerCode"}

\* Mutant: lcbExceptions is unmarshalled without the lock
LocksStats_NotLcbExceptions(opcode) ==
    opcode \in {"latencyStats", "failureStats", "executionStats"}

\* lines 396-398, 404-406, 412-414 and 432-434: the cases that take
\* c.statsRWMutex before json.Unmarshal
LocksStats(opcode) ==
    opcode \in {"latencyStats", "failureStats", "executionStats", "lcbExceptions"}

\* a field holds the number of the response stored in it (0: none yet), and is
\* being written while json.Unmarshal fills it
FieldValue(n) == [val |-> n, writing |-> FALSE]

InitRoute ==
    /\ PristineCluster
    /\ codec = [pc |-> "idle"]
    /\ depcfg = [pc |-> "idle"]
    /\ seqReq = [pc |-> "idle"]
    /\ route = [pc |-> "idle", n |-> 0, opcode |-> "otherOpcode", ok |-> TRUE,
                locked |-> FALSE, readers |-> 0,
                fields |-> [f \in RoutedFields |-> FieldValue(0)],
                reader |-> "idle",
                seen |-> [f \in StatsFields |-> FieldValue(0)]]

RouteFrame == UNCHANGED <<planVars, storeVars, consumerVars, codec, depcfg, seqReq>>

\* parseWorkerResponse and lines 387-390: a response arrives; its body parses
\* as JSON (ok) or does not. Other message types and opcodes are dropped,
\* sourceMap and handlerCode are assigned.
ParseWorkerResponse ==
    /\ route.pc = "idle"
    /\ route.n < MaxResponses
    /\ \E msgType \in MsgTypes, opcode \in Opcodes, ok \in BOOLEAN :
          LET r == [route EXCEPT !.n = @ + 1, !.opcode = opcode, !.ok = ok]
          IN  route' =
                 IF msgType # respV8WorkerConfig \/ RoutedField(opcode) = "none"
                 THEN r
                 ELSE IF AssignsMsg(opcode)
                 THEN [r EXCEPT !.fields[RoutedField(opcode)] = FieldValue(r.n)]
                 ELSE [r EXCEPT !.pc = IF LocksStats(opcode) THEN "lock" ELSE "unmarshal"]
    /\ RouteFrame

\* c.statsRWMutex.Lock(): waits until no reader and no writer holds the lock
StatsLock ==
    /\ route.pc = "lock"
    /\ ~route.locked
    /\ route.readers = 0
    /\ route' = [route EXCEPT !.locked = TRUE, !.pc = "unmarshal"]
    /\ RouteFrame

\* json.Unmarshal starts to fill the field
UnmarshalStarts ==
    /\ route.pc = "unmarshal"
    /\ route' = [route EXCEPT !.fields[RoutedField(route.opcode)].writing = TRUE,
                              !.pc = "unmarshalling"]
    /\ RouteFrame

\* json.Unmarshal returns: the field holds the response, or, after an error,
\* what it held before or what was decoded up to the error
UnmarshalReturns ==
    /\ route.pc = "unmarshalling"
    /\ \E v \in {route.n, route.fields[RoutedField(route.opcode)].val} :
          /\ route.ok => v = route.n
          /\ route' = [route EXCEPT !.fields[RoutedField(route.opcode)] = FieldValue(v),
                                    !.pc = "return"]
    /\ RouteFrame

\* routeResponse returns: the deferred Unlock of the case taken runs
RouteResponseReturns ==
    /\ route.pc = "return"
    /\ route' = [route EXCEPT !.locked = IF LocksStats(route.opcode) THEN FALSE ELSE @,
                              !.pc = "idle"]
    /\ RouteFrame

\* a reader of the stats: c.statsRWMutex.RLock()
StatsRLock ==
    /\ route.pc # "off"
    /\ route.reader = "idle"
    /\ ~route.locked
    /\ route' = [route EXCEPT !.readers = @ + 1, !.reader = "rlocked"]
    /\ RouteFrame

\* the reader copies the stats caches
StatsRead ==
    /\ route.pc # "off"
    /\ route.reader = "rlocked"
    /\ route' = [route EXCEPT !.seen = [f \in StatsFields |-> route.fields[f]],
                              !.reader = "read"]
    /\ RouteFrame

\* c.statsRWMutex.RUnlock()
StatsRUnlock ==
    /\ route.pc # "off"
    /\ route.reader = "read"
    /\ route' = [route EXCEPT !.readers = @ - 1, !.reader = "idle"]
    /\ RouteFrame

NextRoute ==
    \/ ParseWorkerResponse
    \/ StatsLock
    \/ UnmarshalStarts
    \/ UnmarshalReturns
    \/ RouteResponseReturns
    \/ StatsRLock
    \/ StatsRead
    \/ StatsRUnlock

SpecRoute == InitRoute /\ [][NextRoute]_vars

----------------------------------------------------------------------------
(* Claims about the planner, checked under SpecPlan *)

\* the producer of node n holds a node assignment computed by vbEventingNodeAssign
HasPlanned(n) == eventingNodeAddrs[n] # <<>>

\* the vbuckets a node assignment map gives to node addr
VbsOf(map, addr) == {vb \in DOMAIN map : map[vb] = addr}

\* Reference plan: with q = N div n and r = N mod n, member i0 (from 0) gets
\* q + (1 if i0 < r else 0) partitions, starting at partition i0*q + min(i0, r)
RefCount(i0, n, N) == (N \div n) + (IF i0 < N % n THEN 1 ELSE 0)
RefStart(i0, n, N) == i0 * (N \div n) + (IF i0 < N % n THEN i0 ELSE N % n)
RefBlock(i0, n, N) == RefStart(i0, n, N) .. (RefStart(i0, n, N) + RefCount(i0, n, N) - 1)

\* C4: for every non-empty member list and partition count N the map produced
\* by vbEventingNodeAssign has exactly the keys 0..N-1 and maps each of them
\* to a member of the list.
C4_NodeAssignTotal ==
    \A n \in Nodes : HasPlanned(n) =>
        /\ DOMAIN vbEventingNodeAssignMap[n] = 0..(numVbuckets - 1)
        /\ \A vb \in 0..(numVbuckets - 1) :
              vbEventingNodeAssignMap[n][vb] \in Range(eventingNodeAddrs[n])

\* C4 witness: a producer has just assigned a partition count that the member
\* count does not divide
C4_Witness ==
    \E n \in Nodes :
        /\ pcP[n] = "assigned"
        /\ eventingNodeAddrs[n] = members
        /\ Len(members) >= 2
        /\ numVbuckets > Len(members)
        /\ numVbuckets % Len(members) # 0

\* C5: vbEventingNodeAssign equals the reference plan: member i gets
\* q + (1 if i < r else 0) partitions as consecutive ascending blocks from
\* partition 0, so counts differ by at most 1; N = 1024 gives 256 each for 4
\* members and 342, 341, 341 for 3.
C5_NodeAssignReference ==
    /\ \A n \in Nodes : HasPlanned(n) =>
          LET addrs == eventingNodeAddrs[n]
              map == vbEventingNodeAssignMap[n]
          IN  /\ \A i \in 1..Len(addrs) :
                    VbsOf(map, addrs[i]) = RefBlock(i - 1, Len(addrs), numVbuckets)
              /\ \A i, j \in 1..Len(addrs) :
                    Cardinality(VbsOf(map, addrs[i]))
                        - Cardinality(VbsOf(map, addrs[j])) \in {-1, 0, 1}
    /\ vbCountPerNode(4, 1024) = <<256, 256, 256, 256>>
    /\ vbCountPerNode(3, 1024) = <<342, 341, 341>>

\* C5 witness: three members, a remainder of one partition, planned
C5_Witness ==
    \E n \in Nodes :
        /\ pcP[n] = "assigned"
        /\ eventingNodeAddrs[n] = members
        /\ Len(members) = 3
        /\ numVbuckets = 4

\* C6: two producers that observed the same member list (and N) hold identical
\* node assignment maps, whatever map each held before.
C6_NodeAssignDeterministic ==
    \A n1, n2 \in Nodes :
        eventingNodeAddrs[n1] = eventingNodeAddrs[n2] =>
            vbEventingNodeAssignMap[n1] = vbEventingNodeAssignMap[n2]

\* C6 witness: a fresh producer and one that held a different earlier
\* assignment have both planned for the current membership
C6_Witness ==
    \E n1, n2 \in Nodes :
        /\ n1 # n2
        /\ eventingNodeAddrs[n1] = members
        /\ eventingNodeAddrs[n2] = members
        /\ priorAddrs[n1] = <<>>
        /\ priorAddrs[n2] # <<>>
        /\ numVbuckets >= 2
        /\ PlannedMap(priorAddrs[n2], numVbuckets) # vbEventingNodeAssignMap[n2]

\* the producer of node n has run initWorkerVbMap on its current node assignment
HasWorkerMap(n) == pcP[n] = "idle" /\ HasPlanned(n)

AllPlanned ==
    \A n \in Nodes : eventingNodeAddrs[n] = members /\ pcP[n] = "idle"

\* the places (node, worker, index) where partition vb occurs in the cluster
PlacesOf(vb) ==
    {p \in Nodes \X (0..(workerCount - 1)) \X (1..numVbuckets) :
        /\ p[3] \in DOMAIN workerVbucketMap[p[1]][p[2]]
        /\ workerVbucketMap[p[1]][p[2]][p[3]] = vb}

----------------------------------------------------------------------------
(* Claims about the rebalance protocol *)

\* the consumers that have requested vb's stream, or have it open, and were
\* not told by the producer that it is closing
Holders(vb) == {c \in Consumers : stream[c][vb] \in {"requested", "open"}}

\* C1: in every reachable state at most one consumer has a requested or open
\* stream for a vbucket, and the blob does not name a running owner while a
\* different live consumer still has the vbucket's stream open.
C1_OneStreamPerVb ==
    \A vb \in ProtoVbs :
        /\ Cardinality(Holders(vb)) <= 1
        /\ blob[vb].dcp_stream_status = dcpStreamRunning =>
              \A c \in Consumers :
                  (c[1] \in alive /\ stream[c][vb] = "open") =>
                      /\ blob[vb].node_uuid = NodeUUID(c)
                      /\ blob[vb].assigned_worker = ConsumerName(c)

\* C2: no step decreases the last_processed_seq_no stored in a vbucket's blob.
C2_SeqNoNeverDecreases ==
    [][\A vb \in ProtoVbs :
          blob'[vb].last_processed_seq_no >= blob[vb].last_processed_seq_no]_vars

\* C3: the give-up checkpoint is a compare-and-swap against the blob the
\* routine read at line 137: when another consumer has meanwhile become the
\* blob's running owner, the write at line 138 leaves the blob as stored.
C3_GiveUpWriteIsCas ==
    [][\A c \in Consumers :
          (/\ giveup[c].pc = "write"
           /\ giveup'[c].pc = "poll"
           /\ blob[GiveUpVb(c)] # giveup[c].vbBlob
           /\ blob[GiveUpVb(c)].dcp_stream_status = dcpStreamRunning
           /\ <<blob[GiveUpVb(c)].node_uuid, blob[GiveUpVb(c)].assigned_worker>> # c)
          => blob'[GiveUpVb(c)] = blob[GiveUpVb(c)]]_vars

\* a routine of consumer c that inserted vb into vbStreamRequested and is
\* about to request the stream or has requested it
WonGuard(c, t, vb) ==
    /\ takeover[c][t].pc \in {"request", "rpc"}
    /\ TakeoverVb(c, t) = vb

\* what a call that found the vbucket in vbStreamRequested must leave alone
guardedState == <<blob, stream, vbStreamRequested, vbProcessingStats,
                  vbsStreamClosed, timerDirCopied>>

Converged ==
    /\ \A vb \in 0..(numVbuckets - 1) :
          /\ blob[vb].dcp_stream_status = dcpStreamRunning
          /\ <<blob[vb].node_uuid, blob[vb].assigned_worker>> \in PlannedOwners(members, vb)
    /\ \A c \in Consumers :
          /\ giveup[c].pc \in {"off", "done"}
          /\ takeover[c][TakeoverShard].pc \in {"off", "done"}

\* the vbuckets whose blob names a consumer of node n as running owner
OwnedByNode(n) ==
    {vb \in 0..(numVbuckets - 1) :
        blob[vb].dcp_stream_status = dcpStreamRunning /\ blob[vb].node_uuid = n}

RoundDoneStep(c) ==
    /\ pcMain[c] = "takeover"
    /\ takeover[c][TakeoverShard].pc \in {"done", "stopped"}
    /\ (pcMain'[c] # pcMain[c] \/ takeover'[c] # takeover[c])

----------------------------------------------------------------------------
(* Claims about doVbTakeover, checked under SpecTakeover *)

\* routine t of consumer c takes the step of doVbTakeover that dispatches on
\* the blob it read
DispatchStep(c, t) ==
    /\ takeover[c][t].pc = "dispatch"
    /\ takeover'[c][t] # takeover[c][t]

\* the step went into updateVbOwnerAndStartDCPStream
EntersStreamStart(c, t) == takeover'[c][t].pc \in {"request", "present"}

\* the step returned from doVbTakeover and left the consumer and the store as
\* they were: no stream request, vbStreamRequested, blob and stats unchanged
Refuses(c, t) ==
    /\ takeover'[c][t].pc \notin {"request", "present", "rpc"}
    /\ UNCHANGED guardedState

\* C13: reading a blob that is running under another node, doVbTakeover goes
\* on to start the stream if and only if that node is not alive and the node
\* assignment map places the vbucket on this node; otherwise it returns
\* errVbOwnedByAnotherNode and requests no stream.
C13_DeadOwnerTakeover ==
    [][\A c \in Consumers, t \in Routines :
          LET vb == TakeoverVb(c, t)
              vbBlob == takeover[c][t].vbBlob
              deadAndPlanned ==
                  /\ vbBlob.node_uuid \notin alive
                  /\ vb \in DOMAIN vbEventingNodeAssignMap[NodeUUID(c)]
                  /\ vbEventingNodeAssignMap[NodeUUID(c)][vb] = NodeUUID(c)
          IN  (/\ DispatchStep(c, t)
               /\ vbBlob.dcp_stream_status = dcpStreamRunning
               /\ vbBlob.node_uuid # NodeUUID(c)) =>
                  IF deadAndPlanned
                  THEN EntersStreamStart(c, t)
                  ELSE /\ doVbTakeover(c, vb, vbBlob) = "errVbOwnedByAnotherNode"
                       /\ Refuses(c, t)]_vars

\* a call that read a blob running under the dead node C, for a vbucket
\* planned on this node, is about to request the stream
C13_Witness ==
    \E c \in Consumers, t \in Routines :
        /\ takeover[c][t].pc = "request"
        /\ takeover[c][t].vbBlob.dcp_stream_status = dcpStreamRunning
        /\ takeover[c][t].vbBlob.node_uuid = "C"
        /\ "C" \notin alive
        /\ checkIfCurrentNodeShouldOwnVb(c, TakeoverVb(c, t))

----------------------------------------------------------------------------
(* Claim about the IPC codec, checked under SpecCodec *)

\* C14: what the reader decodes is the frame that was encoded: the header's
\* event, opcode, partition and metadata, and for a thread map payload the
\* list of partitions of every thread id, in the same order, and the
\* partitionCount.
C14_CodecRoundTrip ==
    codec.pc = "decoded" =>
        IF codec.frame.kind = "header"
        THEN /\ codec.decoded.event = codec.frame.event
             /\ codec.decoded.opcode = codec.frame.opcode
             /\ codec.decoded.partition = codec.frame.partition
             /\ codec.decoded.metadata = codec.frame.metadata
        ELSE /\ DOMAIN codec.decoded.thrMap = DOMAIN codec.frame.thrMap
             /\ \A i \in DOMAIN codec.frame.thrMap :
                    codec.decoded.thrMap[i] = codec.frame.thrMap[i]
             /\ codec.decoded.partitionCount = codec.frame.partitionCount

----------------------------------------------------------------------------
(* Claims about parseDepcfg, checked under SpecDepcfg *)

LacksRbac(settings) == RequiredKeys \ DOMAIN settings # {}

\* C15: a settings document without rbacuser or without rbacpass never loads:
\* the call does not return nil, whatever other keys are present, and when
\* every value present has its type the call returns an error.
C15_RbacRequired ==
    (depcfg.pc = "returned" /\ LacksRbac(depcfg.settings)) =>
        /\ depcfg.err # "nil"
        /\ WellTyped(depcfg.settings) => depcfg.err # "panic"

\* a document that has every key but rbacpass was refused for the password
C15_Witness ==
    /\ depcfg.pc = "returned"
    /\ DOMAIN depcfg.settings = SettingKeys \ {"rbacpass"}
    /\ depcfg.err = "rbac password missing"
    /\ depcfg.p["rbacUser"] = "text"
    /\ depcfg.p["rbacPass"] = ""

\* a call on a well-typed document with both RBAC keys and a positive worker
\* count, whose outside calls all succeed
LoadsCleanly ==
    /\ depcfg.pc = "returned"
    /\ RequiredKeys \subseteq DOMAIN depcfg.settings
    /\ WellTyped(depcfg.settings)
    /\ ("worker_count" \in DOMAIN depcfg.settings =>
            depcfg.settings["worker_count"].num > 0)

\* C16: with rbacuser and rbacpass present, every recognised key that is
\* absent gets its default, and no absent key makes loading fail or abort:
\* the call returns nil unless a call outside the Producer failed.
C16_AbsentKeysDefaulted ==
    LoadsCleanly =>
        /\ depcfg.err \in {"nil", "sErr", "uErr", "localEventingServiceHostErr",
                           "kvNodesAddressesErr"}
        /\ depcfg.err \notin {"sErr", "uErr"} =>
              \A k \in SettingKeys \ DOMAIN depcfg.settings :
                  depcfg.p[FieldOf(k)] = DefaultOf(k)

----------------------------------------------------------------------------
(* Further claims about doVbTakeover *)

\* the blob is running under the consumer c itself
RunningUnderSelf(c, vbBlob) ==
    /\ vbBlob.dcp_stream_status = dcpStreamRunning
    /\ vbBlob.node_uuid = NodeUUID(c)
    /\ vbBlob.assigned_worker = ConsumerName(c)

\* the blob is running under another worker of c's node
RunningUnderOtherWorker(c, vbBlob) ==
    /\ vbBlob.dcp_stream_status = dcpStreamRunning
    /\ vbBlob.node_uuid = NodeUUID(c)
    /\ vbBlob.assigned_worker # ConsumerName(c)

\* the blob is running under a node other than c's that is alive
RunningUnderLiveNode(c, vbBlob) ==
    /\ vbBlob.dcp_stream_status = dcpStreamRunning
    /\ vbBlob.node_uuid # NodeUUID(c)
    /\ vbBlob.node_uuid \in alive

\* C17 (checked under SpecTakeover): reading a blob that is running under
\* this very consumer, doVbTakeover returns nil and does nothing: no stream
\* request, vbStreamRequested, the blob and the stats all unchanged.
C17_OwnStreamIsNoOp ==
    [][\A c \in Consumers, t \in Routines :
          (DispatchStep(c, t) /\ RunningUnderSelf(c, takeover[c][t].vbBlob)) =>
              /\ doVbTakeover(c, TakeoverVb(c, t), takeover[c][t].vbBlob) = "nil"
              /\ Refuses(c, t)]_vars

\* a call on a vbucket whose blob is running under the caller has returned,
\* with no stream and nothing in vbStreamRequested
C17_Witness ==
    \E c \in Consumers, t \in Routines :
        /\ takeover[c][t].pc = "verify"
        /\ RunningUnderSelf(c, blob[TakeoverVb(c, t)])
        /\ stream[c][TakeoverVb(c, t)] = "none"
        /\ TakeoverVb(c, t) \notin vbStreamRequested[c]

\* the takeover routine of c holds vb in the list it works through
InToTakeOver(c, vb) == \E i \in 1..Len(vbsRemainingToOwn[c]) : vbsRemainingToOwn[c][i] = vb

\* the takeover routine of c has read, for vb, a blob running under a live
\* other node
ReadLiveOwner(c, vb) ==
    /\ takeover[c][TakeoverShard].pc = "dispatch"
    /\ TakeoverVb(c, TakeoverShard) = vb
    /\ RunningUnderLiveNode(c, takeover[c][TakeoverShard].vbBlob)

\* the takeover routine of c is about to read the blob of vb
AttemptsTakeover(c, vb) ==
    /\ takeover[c][TakeoverShard].pc = "read"
    /\ TakeoverVb(c, TakeoverShard) = vb

\* C18 (checked under SpecConverge): reading a blob that is running under a
\* live node other than this one, doVbTakeover returns
\* errVbOwnedByAnotherNode: no stream request, nothing added to
\* vbStreamRequested, the blob unchanged; the vbucket stays in the list of
\* vbuckets to take over and the routine attempts it again later.
C18_LiveOwnerRefused ==
    /\ [][\A c \in Consumers, t \in Routines :
            (DispatchStep(c, t) /\ RunningUnderLiveNode(c, takeover[c][t].vbBlob)) =>
                /\ doVbTakeover(c, TakeoverVb(c, t), takeover[c][t].vbBlob)
                      = "errVbOwnedByAnotherNode"
                /\ Refuses(c, t)
                /\ t = TakeoverShard =>
                      /\ InToTakeOver(c, TakeoverVb(c, t))
                      /\ UNCHANGED vbsRemainingToOwn]_vars
    /\ \A c \in Consumers, vb \in ProtoVbs :
          ReadLiveOwner(c, vb) ~> AttemptsTakeover(c, vb)

\* node B's takeover routine attempts again a vbucket still running under
\* node A, which is up
C18_Witness ==
    \E c \in Consumers, vb \in ProtoVbs :
        /\ AttemptsTakeover(c, vb)
        /\ RunningUnderLiveNode(c, blob[vb])
        /\ InToTakeOver(c, vb)
        /\ vb \notin vbStreamRequested[c]
        /\ stream[c][vb] = "none"

\* consumer c requests the stream of vb in this step
RequestsStream(c, vb) == stream[c][vb] # "requested" /\ stream'[c][vb] = "requested"

\* C19 (checked under SpecMigrate): while a vbucket's blob is running under
\* another worker of this node, every takeover attempt of the new worker
\* returns errVbOwnedByAnotherWorker and requests no stream; the new worker
\* requests the stream only once the old worker has given the vbucket up, so
\* that the blob is no longer running under it.
C19_WorkerMigration ==
    [][\A c \in Consumers :
          /\ \A t \in Routines :
                (DispatchStep(c, t) /\ RunningUnderOtherWorker(c, takeover[c][t].vbBlob)) =>
                    /\ doVbTakeover(c, TakeoverVb(c, t), takeover[c][t].vbBlob)
                          = "errVbOwnedByAnotherWorker"
                    /\ Refuses(c, t)
          /\ \A vb \in ProtoVbs :
                RequestsStream(c, vb) => ~RunningUnderOtherWorker(c, blob[vb])]_vars

\* worker 1 of node A has the stream of a vbucket that worker 0 of node A
\* owned and gave up
C19_Witness ==
    \E vb \in ProtoVbs :
        /\ OwnsInitially(<<"A", 0>>, vb)
        /\ vb \in vbsStreamClosed[<<"A", 0>>]
        /\ stream[<<"A", 1>>][vb] \in {"requested", "open"}
        /\ ~RunningUnderOtherWorker(<<"A", 1>>, blob[vb])

\* C20 (checked under SpecTakeover): reading a blob that is stopped or
\* uninitialised, doVbTakeover goes into updateVbOwnerAndStartDCPStream
\* whatever owner and previous owner the blob names.
C20_StoppedIsTakenOver ==
    [][\A c \in Consumers, t \in Routines :
          (/\ DispatchStep(c, t)
           /\ takeover[c][t].vbBlob.dcp_stream_status
                 \in {dcpStreamStopped, dcpStreamUninitialised}) =>
              /\ doVbTakeover(c, TakeoverVb(c, t), takeover[c][t].vbBlob) = "update"
              /\ EntersStreamStart(c, t)]_vars

\* a call that read a stopped blob naming node B, which is up, as owner is
\* about to request the stream
C20_Witness ==
    \E c \in Consumers, t \in Routines :
        /\ takeover[c][t].pc = "request"
        /\ takeover[c][t].vbBlob.dcp_stream_status = dcpStreamStopped
        /\ takeover[c][t].vbBlob.node_uuid = "B"
        /\ takeover[c][t].vbBlob.previous_node_uuid = "A"
        /\ "B" \in alive

\* C21 (checked under SpecTakeover): reading a blob whose status is none of
\* running, stopped and uninitialised, doVbTakeover returns
\* errUnexpectedVbStreamStatus: no stream request, nothing inserted into
\* vbStreamRequested, the blob and the stats unchanged.
C21_UnexpectedStatusRefused ==
    [][\A c \in Consumers, t \in Routines :
          (/\ DispatchStep(c, t)
           /\ takeover[c][t].vbBlob.dcp_stream_status
                 \notin {dcpStreamRunning, dcpStreamStopped, dcpStreamUninitialised}) =>
              /\ doVbTakeover(c, TakeoverVb(c, t), takeover[c][t].vbBlob)
                    = "errUnexpectedVbStreamStatus"
              /\ Refuses(c, t)]_vars

\* a call on a vbucket whose blob has an unknown status has returned, with no
\* stream and nothing in vbStreamRequested
C21_Witness ==
    \E c \in Consumers, t \in Routines :
        /\ takeover[c][t].pc = "verify"
        /\ blob[TakeoverVb(c, t)].dcp_stream_status = dcpStreamUnknown
        /\ stream[c][TakeoverVb(c, t)] = "none"
        /\ TakeoverVb(c, t) \notin vbStreamRequested[c]

----------------------------------------------------------------------------
(* Claim about the sequence number of the stream request *)

\* C22 (checked under SpecStartSeq): the stream is requested at the smaller
\* of the blob's last processed sequence number and its last timer feedback
\* sequence number, and at that number when the two are equal; never above
\* either.
C22_StartsAtMinimum ==
    seqReq.pc = "requested" =>
        /\ seqReq.requestedAt <= seqReq.vbBlob.last_processed_seq_no
        /\ seqReq.requestedAt <= seqReq.vbBlob.last_doc_timer_feedback_seqno
        /\ seqReq.requestedAt \in {seqReq.vbBlob.last_processed_seq_no,
                                   seqReq.vbBlob.last_doc_timer_feedback_seqno}

\* a request for a blob whose timer feedback is behind its processing
C22_Witness ==
    /\ seqReq.pc = "requested"
    /\ seqReq.vbBlob.last_doc_timer_feedback_seqno < seqReq.vbBlob.last_processed_seq_no
    /\ seqReq.requestedAt = seqReq.vbBlob.last_doc_timer_feedback_seqno

----------------------------------------------------------------------------
(* Claims about updateVbOwnerAndStartDCPStream *)

\* the stream request of routine t of consumer c returns an error
RequestFails(c, t) ==
    /\ takeover[c][t].pc = "request"
    /\ takeover'[c][t] # takeover[c][t]
    /\ takeover'[c][t].pc # "rpc"

\* C23 (checked under Spec): when the stream request fails the partition is
\* out of vbStreamRequested when the call returns and the error is one the
\* caller retries; an attempt that finds no stream of the partition is never
\* turned away by the guard but goes on to request the stream.
C23_FailedRequestClearsGuard ==
    [][\A c \in Consumers, t \in Routines :
          /\ RequestFails(c, t) =>
                /\ TakeoverVb(c, t) \notin vbStreamRequested'[c]
                /\ stream'[c][TakeoverVb(c, t)] = "none"
                /\ t = TakeoverShard => takeover'[c][t].pc = "retry"
          /\ (/\ DispatchStep(c, t)
              /\ doVbTakeover(c, TakeoverVb(c, t), takeover[c][t].vbBlob) = "update"
              /\ stream[c][TakeoverVb(c, t)] = "none") =>
                takeover'[c][t].pc = "request"]_vars

\* the takeover routine is about to retry after a failed stream request
C23_Witness ==
    \E c \in Consumers :
        /\ takeover[c][TakeoverShard].pc = "retry"
        /\ TakeoverVb(c, TakeoverShard) \notin vbStreamRequested[c]
        /\ stream[c][TakeoverVb(c, TakeoverShard)] = "none"

\* routine t of consumer c passes lines 436-466 of its call
TimerTransferStep(c, t) ==
    /\ takeover[c][t].pc = "rpc"
    /\ takeover'[c][t] # takeover[c][t]

\* C24 (checked under SpecStream): the timer-transfer RPC of the previous
\* owner is contacted, and the timer directory downloaded and copied, only
\* when the blob's previous node UUID differs from this node's; when it is
\* this node's, nothing is copied, no RPC connection is made that could fail,
\* and the call returns success once the stream request succeeded.
C24_SameNodeSkipsTransfer ==
    [][\A c \in Consumers, t \in Routines :
          TimerTransferStep(c, t) =>
              /\ timerDirCopied'[c] # timerDirCopied[c] =>
                    takeover[c][t].vbBlob.previous_node_uuid # NodeUUID(c)
              /\ takeover[c][t].vbBlob.previous_node_uuid = NodeUUID(c) =>
                    /\ timerDirCopied' = timerDirCopied
                    /\ t = TakeoverShard => takeover'[c][t].pc # "retry"]_vars

\* C25 (checked under SpecConverge): errFailedConnectRemoteRPC is retried and
\* a later attempt performs the timer transfer, so that once the takeover
\* routine is through, a partition this consumer owns with its stream open,
\* whose previous owner was a different node, has had its timer directory
\* transferred.
C25_TransferNotAbandoned ==
    \A c \in Consumers, vb \in ProtoVbs :
        (/\ takeover[c][TakeoverShard].pc \in {"off", "done"}
         /\ stream[c][vb] = "open"
         /\ blob[vb].dcp_stream_status = dcpStreamRunning
         /\ blob[vb].node_uuid = NodeUUID(c)
         /\ blob[vb].assigned_worker = ConsumerName(c)
         /\ blob[vb].previous_node_uuid \notin {NoNode, NodeUUID(c)}) =>
            vb \in timerDirCopied[c]

----------------------------------------------------------------------------
(* Claims about vbGiveUpRoutine *)

\* the give-up routine of consumer c passes lines 84-131 for a vbucket whose
\* blob it read as running under another node
MigratedStep(c) ==
    /\ giveup[c].pc = "check"
    /\ giveup'[c] # giveup[c]
    /\ giveup[c].vbBlob.node_uuid # NodeUUID(c)
    /\ giveup[c].vbBlob.dcp_stream_status = dcpStreamRunning

\* C26 (checked under Spec): when the give-up routine reads the blob as
\* running under another node, it asks for the stream to be closed, clears
\* its stats of the partition (node UUID and worker empty, status stopped),
\* writes no checkpoint, does not add the partition to vbsStreamClosed, and
\* moves on to the next partition whether or not the close succeeded.
C26_MigratedOnlyClearsStats ==
    [][\A c \in Consumers :
          MigratedStep(c) =>
              /\ vbProcessingStats'[c][GiveUpVb(c)] = StoppedStats
              /\ \A d \in Consumers, vb \in ProtoVbs :
                    <<d, vb>> # <<c, GiveUpVb(c)>> =>
                        vbProcessingStats'[d][vb] = vbProcessingStats[d][vb]
              /\ stream'[c][GiveUpVb(c)] \in {stream[c][GiveUpVb(c)], "closing"}
              /\ giveup'[c] = RoutineAdvance(giveup[c])
              /\ UNCHANGED <<blob, vbsStreamClosed, vbStreamRequested>>]_vars

\* the routine moved on from a partition that had migrated, its close having
\* failed: the stats are cleared, the stream is still open
C26_Witness ==
    \E c \in Consumers, vb \in ProtoVbs :
        /\ giveup[c].pc = "done"
        /\ vbProcessingStats[c][vb] = StoppedStats
        /\ vb \notin vbsStreamClosed[c]
        /\ stream[c][vb] = "open"
        /\ blob[vb].dcp_stream_status = dcpStreamRunning
        /\ blob[vb].node_uuid # NodeUUID(c)

\* the give-up routine of consumer c passes lines 111-131 for a vbucket its
\* stats copy still claims
ClaimedStep(c) ==
    /\ giveup[c].pc = "check"
    /\ giveup'[c] # giveup[c]
    /\ ~(/\ giveup[c].vbBlob.node_uuid # NodeUUID(c)
         /\ giveup[c].vbBlob.dcp_stream_status = dcpStreamRunning)
    /\ GiveUpVb(c) \in vbsts[c]

\* consumer c writes its give-up checkpoint
CheckpointStep(c) ==
    /\ giveup[c].pc = "write"
    /\ giveup'[c] # giveup[c]

\* C27 (checked under SpecGiveUp): the give-up checkpoint of a partition is
\* written only by the give-up that records the partition in vbsStreamClosed;
\* a give-up that finds it recorded asks for the close and writes nothing.
\* The blob written has status stopped, current owner, assigned worker and
\* node UUID empty, and previous owner, worker, node UUID and directory set
\* to this consumer's host address, name, node UUID and eventing directory.
C27_CheckpointByFirstGiveUp ==
    [][\A c \in Consumers :
          /\ (ClaimedStep(c) /\ GiveUpVb(c) \in vbsStreamClosed[c]) =>
                /\ giveup'[c].pc = "poll"
                /\ stream'[c][GiveUpVb(c)] \in {stream[c][GiveUpVb(c)], "closing"}
                /\ UNCHANGED <<blob, vbProcessingStats, vbsStreamClosed>>
          /\ (ClaimedStep(c) /\ GiveUpVb(c) \notin vbsStreamClosed[c]) =>
                /\ giveup'[c].pc = "reread"
                /\ vbsStreamClosed'[c] = vbsStreamClosed[c] \cup {GiveUpVb(c)}
          /\ (giveup'[c].pc \in {"reread", "write"} /\ giveup'[c] # giveup[c]) =>
                /\ GiveUpVb(c) \in vbsStreamClosed'[c]
                /\ giveup[c].pc = "check" => GiveUpVb(c) \notin vbsStreamClosed[c]
          /\ CheckpointStep(c) =>
                /\ blob'[GiveUpVb(c)].dcp_stream_status = dcpStreamStopped
                /\ blob'[GiveUpVb(c)].current_vb_owner = NoNode
                /\ blob'[GiveUpVb(c)].assigned_worker = NoWorker
                /\ blob'[GiveUpVb(c)].node_uuid = NoNode
                /\ blob'[GiveUpVb(c)].previous_vb_owner = HostPortAddr(c)
                /\ blob'[GiveUpVb(c)].previous_assigned_worker = ConsumerName(c)
                /\ blob'[GiveUpVb(c)].previous_node_uuid = NodeUUID(c)
                /\ blob'[GiveUpVb(c)].previous_eventing_dir = ConsumerEventingDir(c)
                /\ blob'[GiveUpVb(c)].last_processed_seq_no
                      = giveup[c].vbBlob.last_processed_seq_no]_vars

\* one consumer wrote its give-up checkpoint, and another, finding its
\* partition recorded in vbsStreamClosed, had its stream closed and wrote
\* nothing: the blob still names it as the running owner
C27_Witness ==
    \E c \in Consumers, d \in Consumers :
        /\ giveup[c].pc = "poll"
        /\ GiveUpVb(c) \in vbsStreamClosed[c]
        /\ blob[GiveUpVb(c)] = GivenUpBlob(c)
        /\ giveup[d].pc = "poll"
        /\ GiveUpVb(d) \in vbsStreamClosed[d]
        /\ blob[GiveUpVb(d)] = OwnedBlob(d)
        /\ stream[d][GiveUpVb(d)] = "none"

\* C28 (checked under SpecConverge): the give-up checkpoint that marks the
\* blob stopped is written only after the consumer's stream of the partition
\* has ended (the close succeeded and DCP_STREAMEND was received); while the
\* close has failed or the stream has not ended, the blob is not marked
\* stopped.
C28_StoppedAfterStreamEnd ==
    [][\A c \in Consumers :
          CheckpointStep(c) => ~Streaming(c, GiveUpVb(c))]_vars

\* the give-up routine of consumer c is in its poll and can run, no stop
\* signal pending
Polling(c) ==
    /\ giveup[c].pc = "poll"
    /\ c[1] \in alive
    /\ stopVbOwnerGiveupCh[c] = 0

\* the blob names a running owner other than consumer c
RunningUnderAnother(c, vbBlob) ==
    /\ vbBlob.dcp_stream_status = dcpStreamRunning
    /\ ~(vbBlob.node_uuid = NodeUUID(c) /\ vbBlob.assigned_worker = ConsumerName(c))

\* C29, as stated (checked under SpecConverge): the poll that follows the
\* give-up ends as soon as the blob's status is not running or neither its
\* node UUID nor its worker is this consumer's; with the blob stopped and its
\* owner fields cleared the routine moves on without waiting for a new owner.
C29_PollEndsWhenNotRunning ==
    \A c \in Consumers :
        (/\ Polling(c)
         /\ \/ blob[GiveUpVb(c)].dcp_stream_status # dcpStreamRunning
            \/ /\ blob[GiveUpVb(c)].node_uuid # NodeUUID(c)
               /\ blob[GiveUpVb(c)].assigned_worker # ConsumerName(c)) =>
            ENABLED GiveUpPollExit(c)

\* C29, amended (checked under SpecConverge): the poll that follows the
\* give-up goes on while the blob's status is not running or the blob still
\* names this consumer; it ends, and the routine moves on, exactly when the
\* blob reads running under another owner.
C29_PollEndsUnderNewOwner ==
    \A c \in Consumers :
        Polling(c) =>
            (ENABLED GiveUpPollExit(c) <=> RunningUnderAnother(c, blob[GiveUpVb(c)]))

\* a give-up routine is through, having waited for a partition that now
\* runs under its new owner
C29_Witness ==
    \E c \in Consumers, vb \in ProtoVbs :
        /\ giveup[c].pc = "done"
        /\ vb \in vbsStreamClosed[c]
        /\ blob[vb].previous_node_uuid = NodeUUID(c)
        /\ RunningUnderAnother(c, blob[vb])

----------------------------------------------------------------------------
(* Claim about cancellation at the loop boundaries *)

\* routine t of consumer c starts a takeover: it reads the blob of its next
\* partition
StartsTakeover(c, t) ==
    /\ takeover[c][t].pc = "read"
    /\ takeover'[c][t].pc = "dispatch"

\* the give-up routine of consumer c starts its work on its next partition
StartsGiveUp(c) ==
    /\ giveup[c].pc = "read"
    /\ giveup'[c].pc = "check"

\* C30 (checked under SpecCancel): with a signal pending on
\* stopVbOwnerTakeoverCh a takeover routine at its loop boundary starts no
\* takeover for a further partition; with a signal pending on
\* stopVbOwnerGiveupCh a give-up routine at its loop boundary starts no
\* give-up work (blob read, stream close, checkpoint write) for a further
\* partition, and in its poll it returns at the next poll.
C30_StopSeenAtLoopBoundary ==
    [][\A c \in Consumers :
          /\ stopVbOwnerTakeoverCh[c] > 0 => ~StartsTakeover(c, TakeoverShard)
          /\ stopVbOwnerGiveupCh[c] > 0 =>
                /\ ~StartsGiveUp(c)
                /\ (giveup[c].pc = "poll" /\ giveup'[c] # giveup[c]) =>
                      giveup'[c] = RoutineStopped]_vars

----------------------------------------------------------------------------
(* Claims about vbsStateUpdate *)

\* consumer c's vbsStateUpdate launches the routines of a new pass
PassStarts(c) ==
    /\ pcMain[c] = "idle"
    /\ pcMain'[c] = "takeover"

\* C31 (checked under SpecPasses): after each completed pass of
\* vbsStateUpdate both cancellation channels are fresh. Signals are sent only
\* while a pass runs, so a pass starts with no signal pending on
\* stopVbOwnerGiveupCh or stopVbOwnerTakeoverCh: none of an earlier pass is
\* left for its give-up or takeover routine to observe.
C31_ChannelsFreshEachPass ==
    [][\A c \in Consumers :
          PassStarts(c) =>
              /\ stopVbOwnerGiveupCh[c] = 0
              /\ stopVbOwnerTakeoverCh[c] = 0]_vars

----------------------------------------------------------------------------
(* Claim about routeResponse *)

\* C32 (checked under SpecRoute): a response with opcode latencyStats,
\* failureStats, executionStats or lcbExceptions is unmarshalled into its
\* cache only while routeResponse holds statsRWMutex exclusively, and the lock
\* is released when routeResponse returns, also when the body did not parse:
\* a reader holding the shared lock never sees a cache that is being written,
\* and the lock is not held while no response is being routed.
C32_StatsUpdatedUnderLock ==
    /\ \A f \in StatsFields :
          route.fields[f].writing =>
              /\ route.locked
              /\ route.readers = 0
              /\ route.pc = "unmarshalling"
              /\ f = RoutedField(route.opcode)
    /\ route.reader = "read" => \A f \in StatsFields : ~route.seen[f].writing
    /\ route.pc = "idle" => ~route.locked
    /\ route.locked => route.readers = 0

\* a reader copied the caches after an lcbExceptions response was stored and
\* a later stats response that did not parse was routed, the lock free again
C32_Witness ==
    /\ route.pc = "idle"
    /\ route.n = MaxResponses
    /\ LocksStats(route.opcode)
    /\ ~route.ok
    /\ ~route.locked
    /\ route.reader = "read"
    /\ route.seen["lcbExceptionStats"].val = 1

----------------------------------------------------------------------------
(* Claim about getVbRemainingToOwn and getVbRemainingToGiveUp *)

\* the worker map of c's node assigns vb to c
AssignedToWorker(c, vb) ==
    /\ ConsumerName(c) \in DOMAIN workerVbucketMap[NodeUUID(c)]
    /\ \E i \in DOMAIN workerVbucketMap[NodeUUID(c)][ConsumerName(c)] :
          workerVbucketMap[NodeUUID(c)][ConsumerName(c)][i] = vb

\* C33 (checked under SpecSets): for every plan and every contents of the
\* consumer's stats, the lists vbsStateUpdate gets from getVbRemainingToOwn
\* and getVbRemainingToGiveUp are disjoint: a partition is to be owned only
\* if the worker map assigns it to this worker and to be given up only if it
\* does not, and a partition the stats show as owned by this node and worker
\* that the worker map assigns to this worker is in neither list.
C33_ToOwnAndToGiveUpDisjoint ==
    \A c \in Consumers :
        pcMain[c] = "takeover" =>
            /\ Range(vbsRemainingToOwn[c]) \cap Range(vbsRemainingToGiveUp[c]) = {}
            /\ \A vb \in Range(vbsRemainingToOwn[c]) : AssignedToWorker(c, vb)
            /\ \A vb \in Range(vbsRemainingToGiveUp[c]) : ~AssignedToWorker(c, vb)
            /\ \A vb \in ProtoVbs :
                  (/\ vbProcessingStats[c][vb].node_uuid = NodeUUID(c)
                   /\ vbProcessingStats[c][vb].assigned_worker = ConsumerName(c)
                   /\ AssignedToWorker(c, vb)) =>
                      vb \notin Range(vbsRemainingToOwn[c]) \cup Range(vbsRemainingToGiveUp[c])

\* one call found a partition to own, a partition to give up, and a partition
\* it owns and keeps
C33_Witness ==
    \E c \in Consumers, vb \in ProtoVbs :
        /\ pcMain[c] = "takeover"
        /\ vbsRemainingToOwn[c] # <<>>
        /\ vbsRemainingToGiveUp[c] # <<>>
        /\ vbProcessingStats[c][vb] = RunningStats(c)
        /\ AssignedToWorker(c, vb)

----------------------------------------------------------------------------
(* Claim about the return of vbsStateUpdate *)

RoutinesFinished(c) ==
    /\ giveup[c].pc \in {"done", "stopped"}
    /\ takeover[c][TakeoverShard].pc \in {"done", "stopped"}

\* C34 (checked under SpecCancel): whenever vbsStateUpdate returns, on the
\* early path or at its end, isRebalanceOngoing is false; and on the path
\* that launched the give-up routine the flag becomes false, and the call
\* returns, only after the give-up routine and the takeover routine of that
\* call have finished.
C34_FlagClearedOnReturn ==
    [][\A c \in Consumers :
          /\ (VbsStateUpdate(c) /\ pcMain'[c] = "idle") => ~isRebalanceOngoing'[c]
          /\ (pcMain[c] # "idle" /\ pcMain'[c] = "idle") =>
                (~isRebalanceOngoing'[c] /\ RoutinesFinished(c))
          /\ (pcMain[c] # "idle" /\ isRebalanceOngoing[c] /\ ~isRebalanceOngoing'[c]) =>
                (RoutinesFinished(c) /\ pcMain'[c] = "idle")]_vars

\* a call that launched the give-up routine with work to do has returned
C34_Witness ==
    \E c \in Consumers :
        /\ pcMain[c] = "idle"
        /\ vbsRemainingToGiveUp[c] # <<>>
        /\ giveup[c] = RoutineOff
        /\ ~isRebalanceOngoing[c]

----------------------------------------------------------------------------
(* Claim about what the give-up checkpoint changes *)

\* C35 (checked under SpecCheckpoint): updateCheckpoint changes only the
\* ownership fields: the blob it writes has lastSeqProcessed and
\* lastTimerFeedbackSeq exactly as the give-up read them, and when it
\* completes the consumer's stats of the partition (assigned worker, current
\* owner, node uuid, stream status) equal the values just written to the blob.
C35_CheckpointKeepsSeqNos ==
    [][\A c \in Consumers :
          (giveup[c].pc = "write" /\ giveup'[c].pc = "poll") =>
              LET vb == GiveUpVb(c)
                  read == giveup[c].vbBlob
              IN  /\ blob'[vb].last_processed_seq_no = read.last_processed_seq_no
                  /\ blob'[vb].last_doc_timer_feedback_seqno
                        = read.last_doc_timer_feedback_seqno
                  /\ vbProcessingStats'[c][vb].assigned_worker = blob'[vb].assigned_worker
                  /\ vbProcessingStats'[c][vb].current_vb_owner = blob'[vb].current_vb_owner
                  /\ vbProcessingStats'[c][vb].node_uuid = blob'[vb].node_uuid
                  /\ vbProcessingStats'[c][vb].dcp_stream_status
                        = blob'[vb].dcp_stream_status]_vars

\* a give-up checkpoint was written over a blob whose two sequence numbers
\* are not zero and differ, and the stats hold what the blob holds
C35_Witness ==
    \E c \in Consumers :
        /\ giveup[c].pc = "poll"
        /\ blob[GiveUpVb(c)].previous_node_uuid = NodeUUID(c)
        /\ blob[GiveUpVb(c)].previous_assigned_worker = ConsumerName(c)
        /\ blob[GiveUpVb(c)].dcp_stream_status = dcpStreamStopped
        /\ blob[GiveUpVb(c)].last_processed_seq_no = 1
        /\ blob[GiveUpVb(c)].last_doc_timer_feedback_seqno = 0
        /\ vbProcessingStats[c][GiveUpVb(c)].current_vb_owner = NoNode
        /\ vbProcessingStats[c][GiveUpVb(c)].dcp_stream_status = dcpStreamStopped

====
